---------------------------- MODULE Spec2Model ----------------------------
(***************************************************************************)
(* Verification model of the pattern-generator repository: the App upload  *)
(* pipeline, the metadata service endpoint, the client-side metadata       *)
(* extractor, the interactive controls and the canvas renderer.            *)
(*                                                                         *)
(* Each subsystem has its own next-state relation and specification; the   *)
(* variables of the other subsystems keep their constructed values.        *)
(***************************************************************************)
EXTENDS Integers, Sequences, FiniteSets, TLC

VARIABLES
    \* ---- App (src/unnamed/part_007) ----
    uploadedImage,          \* useState(null): Null or <<upload id, background removed>>
    imageMetadata,          \* useState(null): Null or <<upload id>> (that upload's record)
    isExtractingMetadata,   \* useState(false)
    removeBackground,       \* useState(false)
    uploads,                \* the handleImageUpload calls made so far, in call order
    removedAt,              \* history: Null, or <<the number of uploads started>> at the last removal
    \* ---- App control values (src/unnamed/part_007) ----
    patternType,            \* useState('wave')
    rotation,               \* useState(0), degrees
    scale,                  \* useState(1), in thousandths
    tint,                   \* useState('#FFFFFF')
    zoom,                   \* useState(0), in thousandths
    \* ---- Controls (src/unnamed/part_002) ----
    isDragging,             \* useState(false)
    dragType,               \* useState(null): "null" or the control being dragged
    dragStart,              \* useState({ x: 0, y: 0 })
    dragStartValue,         \* useState(0), in the unit of the dragged control
    lastUpdateTime,         \* useState(0), ms
    lastEvent,              \* the pointer event handled last
    gestureStartType,       \* history: the pattern type at the last pointer-down
    \* ---- renderer (src/src/utils/metadataExtractor.ts, src/src/ConsoleFrame.jsx) ----
    container,              \* the container's sizes when last measured
    canvas,                 \* the drawing surface: created, width, height
    time,                   \* createP5Sketch: let time = 0 (hundredths)
    looping,                \* the host keeps calling p.draw
    lastFrame,              \* what the last call of p.draw did
    \* ---- extractRealMetadata (src/src/utils/metadataExtractor.ts) ----
    extraction,             \* one call: its position, arguments and locals
    \* ---- parameter mapping (src/src/utils/metadataExtractor.ts) ----
    metadataIso,            \* metadata.iso: Null (absent) or <<number>>
    density,                \* params.density, in hundredths
    \* ---- GPS conversion (metadataExtractor.ts, src/unnamed/part_000) ----
    gpsTags,                \* the latitude and longitude tags converted last
    gpsParser,              \* who converted them: "client" or "service"
    gps,                    \* the gps field that resulted, in arc seconds
    \* ---- tinting (metadataExtractor.ts applyTint, ConsoleFrame.jsx) ----
    tintRoutine,            \* which routine filled last: "none", "applyTint", "wave"
    tintColor,              \* the tint it was given: Null or <<hex string>>
    baseColor,              \* the untinted colour of the primitive
    fillColor,              \* the colour the primitive was filled with
    \* ---- file selection (src/src/UploadArea.jsx, src/unnamed/part_006) ----
    selection,              \* the last file selection and what its handler did
    isProcessing,           \* ImagePlaceholder: useState(false)
    \* ---- parameter mapper calls (metadataExtractor.ts mapMetadataToP5Params) ----
    dateNow,                \* Date.now()
    firstCall,              \* a call of mapMetadataToP5Params: arguments and result
    secondCall,             \* the next call with the same arguments, or NoCall
    \* ---- animation phase (createP5Sketch and ConsoleFrame.generatePattern) ----
    p5Sketch,               \* createP5Sketch: its time, the pattern type last drawn
    consoleSketch,          \* ConsoleFrame: the same for the current sketch
    \* ---- metadata service (src/unnamed/part_000) ----
    requests                \* the POST /api/extract-metadata requests

appVars == <<uploadedImage, imageMetadata, isExtractingMetadata, removeBackground, uploads,
            removedAt>>
paramVars == <<patternType, rotation, scale, tint, zoom>>
dragVars == <<isDragging, dragType, dragStart, dragStartValue, lastUpdateTime,
              lastEvent, gestureStartType>>
controlVars == <<paramVars, dragVars>>
renderVars == <<container, canvas, time, looping, lastFrame>>
extractVars == <<extraction>>
mappingVars == <<metadataIso, density>>
gpsVars == <<gpsTags, gpsParser, gps>>
tintVars == <<tintRoutine, tintColor, baseColor, fillColor>>
selectVars == <<selection, isProcessing>>
mapperVars == <<dateNow, firstCall, secondCall>>
phaseVars == <<p5Sketch, consoleSketch>>
serverVars == <<requests>>
vars == <<appVars, controlVars, renderVars, extractVars, mappingVars, gpsVars, tintVars, selectVars, mapperVars, phaseVars, serverVars>>

\* What the handlers of one subsystem leave alone.
nonAppVars == <<controlVars, renderVars, extractVars, mappingVars, gpsVars, tintVars, selectVars, mapperVars, phaseVars, serverVars>>
nonControlVars == <<appVars, renderVars, extractVars, mappingVars, gpsVars, tintVars, selectVars, mapperVars, phaseVars, serverVars>>
nonRenderVars == <<appVars, controlVars, extractVars, mappingVars, gpsVars, tintVars, selectVars, mapperVars, phaseVars, serverVars>>
nonExtractVars == <<appVars, controlVars, renderVars, mappingVars, gpsVars, tintVars, selectVars, mapperVars, phaseVars, serverVars>>
nonMappingVars == <<appVars, controlVars, renderVars, extractVars, gpsVars, tintVars, selectVars, mapperVars, phaseVars, serverVars>>
nonGpsVars == <<appVars, controlVars, renderVars, extractVars, mappingVars, tintVars, selectVars, mapperVars, phaseVars, serverVars>>
nonTintVars == <<appVars, controlVars, renderVars, extractVars, mappingVars, gpsVars, selectVars, mapperVars, phaseVars, serverVars>>
nonSelectVars == <<appVars, controlVars, renderVars, extractVars, mappingVars, gpsVars, tintVars, mapperVars, phaseVars, serverVars>>
nonMapperVars == <<appVars, controlVars, renderVars, extractVars, mappingVars, gpsVars, tintVars, selectVars, phaseVars, serverVars>>
nonPhaseVars == <<appVars, controlVars, renderVars, extractVars, mappingVars, gpsVars, tintVars, selectVars, mapperVars, serverVars>>
nonServerVars == <<appVars, controlVars, renderVars, extractVars, mappingVars, gpsVars, tintVars, selectVars, mapperVars, phaseVars>>

\* JavaScript null, for the variables that hold a tuple otherwise.
Null == <<>>

(***************************************************************************)
(* Bounds of the model.                                                    *)
(***************************************************************************)
MaxUploads == 3
MaxRequests == 3

(***************************************************************************)
(* App: handleImageUpload, handleImageRemove, handleRemoveBackgroundChange *)
(***************************************************************************)
AppInit ==
    /\ uploadedImage = Null
    /\ imageMetadata = Null
    /\ isExtractingMetadata = FALSE
    /\ removeBackground = FALSE
    /\ uploads = <<>>
    /\ removedAt = Null

\* handleImageUpload(imageFile): creates the FileReader and starts
\* readAsDataURL; nothing else happens synchronously. The closure keeps the
\* removeBackground value of the render that created it.
HandleImageUpload ==
    /\ Len(uploads) < MaxUploads
    /\ uploads' = Append(uploads, [pc |-> "reading", rb |-> removeBackground,
                                   result |-> "pending"])
    /\ UNCHANGED <<uploadedImage, imageMetadata, isExtractingMetadata, removeBackground,
                   removedAt>>
    /\ UNCHANGED nonAppVars

\* reader.onload: creates the Image and sets img.src.
ReaderOnload(i) ==
    /\ uploads[i].pc = "reading"
    /\ uploads' = [uploads EXCEPT ![i].pc = "decoding"]
    /\ UNCHANGED <<uploadedImage, imageMetadata, isExtractingMetadata, removeBackground,
                   removedAt>>
    /\ UNCHANGED nonAppVars

\* img.onload up to the await: setIsExtractingMetadata(true) and the call of
\* extractRealMetadata(imageFile, img).
ImgOnload(i) ==
    /\ uploads[i].pc = "decoding"
    /\ isExtractingMetadata' = TRUE
    /\ uploads' = [uploads EXCEPT ![i].pc = "extracting"]
    /\ UNCHANGED <<uploadedImage, imageMetadata, removeBackground, removedAt>>
    /\ UNCHANGED nonAppVars

\* What the continuation after `await extractRealMetadata` stores: the record
\* of this upload when the promise resolved, null when it rejected (catch).
StoredMetadata(i, outcome) ==
    IF outcome = "resolved" THEN <<i>> ELSE Null

\* Mutant: the arrival of the metadata also selects a pattern type.
ExtractionSettledSelectsPattern(i, outcome) ==
    /\ uploads[i].pc = "extracting"
    /\ imageMetadata' = StoredMetadata(i, outcome)
    /\ isExtractingMetadata' = FALSE
    /\ uploads' = [uploads EXCEPT ![i].pc = "done", ![i].result = outcome]
    /\ uploadedImage' = <<i, FALSE>>
    /\ patternType' = IF outcome = "resolved" THEN "contour" ELSE patternType
    /\ UNCHANGED <<removeBackground, removedAt, rotation, scale, tint, zoom, dragVars>>
    /\ UNCHANGED <<renderVars, extractVars, mappingVars, gpsVars, tintVars, selectVars,
                   mapperVars, phaseVars, serverVars>>

\* The continuation of img.onload after `await extractRealMetadata(...)`:
\* try/catch/finally, then the image is processed. One microtask, up to the
\* next await (removeImageBackground) or the end of the callback.
ExtractionSettled(i, outcome) ==
    /\ uploads[i].pc = "extracting"
    /\ imageMetadata' = StoredMetadata(i, outcome)
    /\ isExtractingMetadata' = FALSE
    /\ IF uploads[i].rb
         THEN /\ uploads' = [uploads EXCEPT ![i].pc = "removingBackground",
                                            ![i].result = outcome]
              /\ UNCHANGED uploadedImage
         ELSE /\ uploads' = [uploads EXCEPT ![i].pc = "done", ![i].result = outcome]
              /\ uploadedImage' = <<i, FALSE>>
    /\ UNCHANGED <<removeBackground, removedAt>>
    /\ UNCHANGED nonAppVars

\* processedImg.onload resolves removeImageBackground: setUploadedImage(processedImg).
BackgroundRemoved(i) ==
    /\ uploads[i].pc = "removingBackground"
    /\ uploadedImage' = <<i, TRUE>>
    /\ uploads' = [uploads EXCEPT ![i].pc = "done"]
    /\ UNCHANGED <<imageMetadata, isExtractingMetadata, removeBackground, removedAt>>
    /\ UNCHANGED nonAppVars

HandleImageRemove ==
    /\ uploadedImage' = Null
    /\ imageMetadata' = Null
    /\ removedAt' = <<Len(uploads)>>
    /\ UNCHANGED <<isExtractingMetadata, removeBackground, uploads>>
    /\ UNCHANGED nonAppVars

HandleRemoveBackgroundChange(value) ==
    /\ removeBackground' = value
    /\ UNCHANGED <<uploadedImage, imageMetadata, isExtractingMetadata, uploads, removedAt>>
    /\ UNCHANGED nonAppVars

AppNext ==
    \/ HandleImageUpload
    \/ \E i \in 1..Len(uploads) : ReaderOnload(i)
    \/ \E i \in 1..Len(uploads) : ImgOnload(i)
    \/ \E i \in 1..Len(uploads) : \E outcome \in {"resolved", "rejected"} :
          ExtractionSettled(i, outcome)
    \/ \E i \in 1..Len(uploads) : BackgroundRemoved(i)
    \/ HandleImageRemove
    \/ \E value \in BOOLEAN : HandleRemoveBackgroundChange(value)

(***************************************************************************)
(* Controls: the pattern-type selector, the knobs and the colour slider    *)
(*                                                                         *)
(* Scale and zoom are kept in thousandths (1.0 is 1000), rotation in whole *)
(* degrees; times are in ms. The handlers read the current state values.   *)
(***************************************************************************)
Abs(n) == IF n < 0 THEN -n ELSE n
Min(a, b) == IF a < b THEN a ELSE b
Max(a, b) == IF a > b THEN a ELSE b

\* Math.round(v / q) * q for v, q in the same fixed-point unit: to the nearest
\* multiple of q, halves towards +infinity.
RoundTo(v, q) == ((2 * v + q) \div (2 * q)) * q

\* Strings that are searched or matched are sequences of characters.
UpperLetters ==
    <<"A", "B", "C", "D", "E", "F", "G", "H", "I", "J", "K", "L", "M",
      "N", "O", "P", "Q", "R", "S", "T", "U", "V", "W", "X", "Y", "Z">>
LowerLetters ==
    <<"a", "b", "c", "d", "e", "f", "g", "h", "i", "j", "k", "l", "m",
      "n", "o", "p", "q", "r", "s", "t", "u", "v", "w", "x", "y", "z">>
DigitChars == <<"0", "1", "2", "3", "4", "5", "6", "7", "8", "9">>

\* String.prototype.toLowerCase.
toLowerCase(s) ==
    [i \in 1..Len(s) |->
        IF \E k \in 1..Len(UpperLetters) : UpperLetters[k] = s[i]
          THEN LowerLetters[CHOOSE k \in 1..Len(UpperLetters) : UpperLetters[k] = s[i]]
          ELSE s[i]]

patternTypes == <<"wave", "bump", "contour">>

\* patternTypes.indexOf(type), 0-based.
PatternIndex(type) == (CHOOSE i \in 1..Len(patternTypes) : patternTypes[i] = type) - 1

\* colorValues, top to bottom.
colorValues == <<"#FD0004", "#E86615", "#FFFF00", "#FFFFFF", "#00FF1E", "#002AFF", "#8015E8">>

\* The characters of the colour strings.
ColorChars(hex) ==
    CASE hex = "#FD0004" -> <<"#", "F", "D", "0", "0", "0", "4">>
      [] hex = "#E86615" -> <<"#", "E", "8", "6", "6", "1", "5">>
      [] hex = "#FFFF00" -> <<"#", "F", "F", "F", "F", "0", "0">>
      [] hex = "#FFFFFF" -> <<"#", "F", "F", "F", "F", "F", "F">>
      [] hex = "#00FF1E" -> <<"#", "0", "0", "F", "F", "1", "E">>
      [] hex = "#002AFF" -> <<"#", "0", "0", "2", "A", "F", "F">>
      [] hex = "#8015E8" -> <<"#", "8", "0", "1", "5", "E", "8">>

\* String.prototype.toUpperCase.
toUpperCase(s) ==
    [i \in 1..Len(s) |->
        IF \E k \in 1..Len(LowerLetters) : LowerLetters[k] = s[i]
          THEN UpperLetters[CHOOSE k \in 1..Len(LowerLetters) : LowerLetters[k] = s[i]]
          ELSE s[i]]

\* s.replace('#', ''): the first '#' of s removed.
RemoveHash(s) ==
    IF \E i \in 1..Len(s) : s[i] = "#"
      THEN LET first == CHOOSE i \in 1..Len(s) :
                            s[i] = "#" /\ \A j \in 1..(i - 1) : s[j] # "#"
           IN  SubSeq(s, 1, first - 1) \o SubSeq(s, first + 1, Len(s))
      ELSE s

\* Array.prototype.indexOf, 0-based, -1 when absent.
indexOf(seq, v) ==
    IF \E i \in 1..Len(seq) : seq[i] = v
      THEN (CHOOSE i \in 1..Len(seq) : seq[i] = v /\ \A j \in 1..(i - 1) : seq[j] # v) - 1
      ELSE -1

\* getColorIndexFromTint(tint), 0-based: 3 (white) for no tint; otherwise the
\* tint in upper case without '#' is looked up among the colorValues without
\* '#', 3 when it is not one of them.
getColorIndexFromTint(t) ==
    IF t = "" THEN 3
    ELSE LET normalizedTint == RemoveHash(toUpperCase(ColorChars(t)))
             normalizedColorValues ==
                 [i \in 1..Len(colorValues) |-> RemoveHash(ColorChars(colorValues[i]))]
             index == indexOf(normalizedColorValues, normalizedTint)
         IN  IF index >= 0 THEN index ELSE 3

\* getColorFromIndex(index): colorValues[Math.max(0, Math.min(6, index))].
getColorFromIndex(index) == colorValues[Max(0, Min(6, index)) + 1]

\* The width of the clickable track (w-[540px]) and the thresholds of the
\* handlers.
trackClickWidth == 540
dragThreshold == 50
colorDragThreshold == 30
deadZone == 3
throttleMs == 16

\* Click positions within the track: the relative positions 0.1, 0.5 and
\* 0.9, the two ends, and the pixels around 0.33, 1/3, 0.66 and 2/3 of it.
ClickXs == {0, 54, 177, 178, 179, 180, 181, 270, 355, 356, 357, 359, 360, 361, 486, 540}

\* Pointer positions (clientX, clientY) and event times (Date.now()) the
\* model draws from. The distances between the x positions include 25, 50,
\* 51 and multiples of 51; the first event comes at least throttleMs after
\* the initial lastUpdateTime of 0.
MouseXs == {0, 25, 50, 51, 102, 153}
MouseYs == {0, 31}
MaxTime == 48
EventTimes == {t \in throttleMs..MaxTime : t % 8 = 0}

ControlsInit ==
    /\ patternType = "wave"
    /\ rotation = 0
    /\ scale = 1000
    /\ tint = "#FFFFFF"
    /\ zoom = 0
    /\ isDragging = FALSE
    /\ dragType = "null"
    /\ dragStart = [x |-> 0, y |-> 0]
    /\ dragStartValue = 0
    /\ lastUpdateTime = 0
    /\ lastEvent = [type |-> "none", x |-> 0, y |-> 0]
    /\ gestureStartType = "wave"

\* Mutant: the thirds of the click mapping taken at 0.3 and 0.6.
ClickIndexShifted(x, width) ==
    IF 100 * x < 30 * width THEN 0
    ELSE IF 100 * x < 60 * width THEN 1
    ELSE 2

\* newIndex of handlePatternTypeClick: position = x / width compared with
\* 0.33 and 0.66.
ClickIndex(x, width) ==
    IF 100 * x < 33 * width THEN 0
    ELSE IF 100 * x < 66 * width THEN 1
    ELSE 2

\* handlePatternTypeClick(e), x = e.clientX - rect.left within the track.
HandlePatternTypeClick(x) ==
    /\ lastEvent' = [type |-> "click", x |-> x, y |-> 0]
    /\ IF isDragging
         THEN UNCHANGED patternType
         ELSE patternType' = patternTypes[ClickIndex(x, trackClickWidth) + 1]
    /\ UNCHANGED <<rotation, scale, tint, zoom>>
    /\ UNCHANGED <<isDragging, dragType, dragStart, dragStartValue, lastUpdateTime,
                   gestureStartType>>
    /\ UNCHANGED nonControlVars

\* handlePatternTypeMouseDown(e) on the selector knob.
HandlePatternTypeMouseDown(x, y) ==
    /\ ~isDragging
    /\ lastEvent' = [type |-> "down", x |-> x, y |-> y]
    /\ isDragging' = TRUE
    /\ dragType' = "patternType"
    /\ dragStart' = [x |-> x, y |-> y]
    /\ dragStartValue' = PatternIndex(patternType)
    /\ gestureStartType' = patternType
    /\ UNCHANGED <<paramVars, lastUpdateTime>>
    /\ UNCHANGED nonControlVars

\* handleKnobMouseDown(e, type): the 'frequency' knob controls scale.
KnobStartValue(type) ==
    CASE type = "frequency" -> scale
      [] type = "rotation"  -> rotation
      [] type = "scale"     -> scale
      [] type = "zoom"      -> zoom
      [] OTHER              -> dragStartValue

HandleKnobMouseDown(x, y, type) ==
    /\ ~isDragging
    /\ lastEvent' = [type |-> "down", x |-> x, y |-> y]
    /\ isDragging' = TRUE
    /\ dragType' = type
    /\ dragStart' = [x |-> x, y |-> y]
    /\ dragStartValue' = KnobStartValue(type)
    /\ gestureStartType' = patternType
    /\ UNCHANGED <<paramVars, lastUpdateTime>>
    /\ UNCHANGED nonControlVars

\* handleColorSliderMouseDown(e).
HandleColorSliderMouseDown(x, y) ==
    /\ ~isDragging
    /\ lastEvent' = [type |-> "down", x |-> x, y |-> y]
    /\ isDragging' = TRUE
    /\ dragType' = "colorSlider"
    /\ dragStart' = [x |-> x, y |-> y]
    /\ dragStartValue' = getColorIndexFromTint(tint)
    /\ gestureStartType' = patternType
    /\ UNCHANGED <<paramVars, lastUpdateTime>>
    /\ UNCHANGED nonControlVars

\* Mutant: the index follows the distance dragged, one step per threshold
\* length, without the reset of the drag origin.
PatternDragIndexByDistance(startValue, deltaX) ==
    IF deltaX > 0 THEN Min(2, startValue + deltaX \div dragThreshold)
    ELSE Max(0, startValue - ((-deltaX) \div dragThreshold))

\* Mutant: the index goes round the three types, the step past contour
\* landing on wave and the step before wave on contour.
PatternDragIndexWrapping(startValue, deltaX) ==
    IF Abs(deltaX) > dragThreshold
      THEN IF deltaX > 0 THEN (startValue + 1) % 3 ELSE (startValue + 2) % 3
      ELSE startValue

\* case 'patternType' of handleMouseMove: newIndex (lines 119-131).
PatternDragIndex(startValue, deltaX) ==
    IF Abs(deltaX) > dragThreshold
      THEN IF deltaX > 0 THEN Min(2, startValue + 1) ELSE Max(0, startValue - 1)
      ELSE startValue

\* Mutant: the directions exchanged, a downward drag (deltaY < 0) going to
\* the previous colour.
ColorDragIndexInverted(startValue, deltaY) ==
    IF Abs(deltaY) > colorDragThreshold
      THEN IF deltaY > 0 THEN Min(6, startValue + 1) ELSE Max(0, startValue - 1)
      ELSE startValue

\* case 'colorSlider' of handleMouseMove: newColorIndex (lines 167-179).
ColorDragIndex(startValue, deltaY) ==
    IF Abs(deltaY) > colorDragThreshold
      THEN IF deltaY < 0 THEN Min(6, startValue + 1) ELSE Max(0, startValue - 1)
      ELSE startValue

\* case 'frequency': sensitivity 0.3 per pixel, clamped to [0.1, 3.0],
\* rounded to 1 decimal.
FrequencyDragScale(startValue, deltaX) ==
    RoundTo(Max(100, Min(3000, startValue + deltaX * 300)), 100)

\* Mutant: the rotation clamped to a full turn each way.
RotationDragValueFullTurn(startValue, deltaX) ==
    RoundTo(Max(-36000, Min(36000, startValue * 100 + deltaX * 15)), 100) \div 100

\* case 'rotation': 0.15 degrees per pixel, clamped to [-180, 180], rounded
\* to whole degrees (computed in hundredths of a degree).
RotationDragValue(startValue, deltaX) ==
    RoundTo(Max(-18000, Min(18000, startValue * 100 + deltaX * 15)), 100) \div 100

\* case 'scale': 0.3 * 0.05 per pixel, clamped to [0.1, 3], rounded to 2 decimals.
ScaleDragValue(startValue, deltaY) ==
    RoundTo(Max(100, Min(3000, startValue + deltaY * 15)), 10)

\* case 'zoom': 0.3 * 0.1 per pixel, clamped to [1.0, 5.0], rounded to 2 decimals.
ZoomDragValue(startValue, deltaY) ==
    RoundTo(Max(1000, Min(5000, startValue + deltaY * 30)), 10)

\* handleMouseMove(e) at time now = Date.now(): the listener exists only
\* while isDragging; an event less than 16 ms after the last handled one is
\* dropped.
HandleMouseMove(x, y, now) ==
    /\ isDragging
    /\ now >= lastUpdateTime
    /\ lastEvent' = [type |-> "move", x |-> x, y |-> y]
    /\ IF now - lastUpdateTime < throttleMs
         THEN UNCHANGED <<paramVars, isDragging, dragType, dragStart, dragStartValue,
                          lastUpdateTime, gestureStartType>>
         ELSE LET deltaX == x - dragStart.x
                  deltaY == dragStart.y - y
                  newIndex == PatternDragIndex(dragStartValue, deltaX)
                  newColorIndex == ColorDragIndex(dragStartValue, deltaY)
                  stepped == \/ dragType = "patternType" /\ newIndex # dragStartValue
                             \/ dragType = "colorSlider" /\ newColorIndex # dragStartValue
              IN  /\ lastUpdateTime' = now
                  /\ patternType' = IF dragType = "patternType" /\ stepped
                                      THEN patternTypes[newIndex + 1] ELSE patternType
                  /\ tint' = IF dragType = "colorSlider" /\ stepped
                               THEN getColorFromIndex(newColorIndex) ELSE tint
                  /\ scale' = CASE dragType = "frequency" ->
                                       FrequencyDragScale(dragStartValue, deltaX)
                                [] dragType = "scale" -> ScaleDragValue(dragStartValue, deltaY)
                                [] OTHER -> scale
                  /\ rotation' = IF dragType = "rotation" /\ Abs(deltaX) >= deadZone
                                   THEN RotationDragValue(dragStartValue, deltaX)
                                   ELSE rotation
                  /\ zoom' = IF dragType = "zoom"
                               THEN ZoomDragValue(dragStartValue, deltaY) ELSE zoom
                  /\ dragStartValue' = CASE dragType = "patternType" -> newIndex
                                         [] dragType = "colorSlider" -> newColorIndex
                                         [] OTHER -> dragStartValue
                  /\ dragStart' = IF stepped THEN [x |-> x, y |-> y] ELSE dragStart
                  /\ UNCHANGED <<isDragging, dragType, gestureStartType>>
    /\ UNCHANGED nonControlVars

\* Mutant: the pointer-up clears the drag flag and leaves the active control.
HandleMouseUpKeepsControl(x, y) ==
    /\ isDragging
    /\ lastEvent' = [type |-> "up", x |-> x, y |-> y]
    /\ isDragging' = FALSE
    /\ UNCHANGED <<paramVars, dragType, dragStart, dragStartValue, lastUpdateTime,
                   gestureStartType>>
    /\ UNCHANGED nonControlVars

\* handleMouseUp(e): the listener exists only while isDragging.
HandleMouseUp(x, y) ==
    /\ isDragging
    /\ lastEvent' = [type |-> "up", x |-> x, y |-> y]
    /\ isDragging' = FALSE
    /\ dragType' = "null"
    /\ UNCHANGED <<paramVars, dragStart, dragStartValue, lastUpdateTime, gestureStartType>>
    /\ UNCHANGED nonControlVars

\* The gestures on the pattern-type selector.
PatternSelectorNext ==
    \/ \E x \in ClickXs : HandlePatternTypeClick(x)
    \/ \E x \in MouseXs, y \in MouseYs : HandlePatternTypeMouseDown(x, y)
    \/ \E x \in MouseXs, y \in MouseYs, now \in EventTimes : HandleMouseMove(x, y, now)
    \/ \E x \in MouseXs, y \in MouseYs : HandleMouseUp(x, y)

\* The knob types bound to handleKnobMouseDown in the JSX (lines 400, 443,
\* 486); no element starts a 'zoom' drag.
KnobTypes == {"frequency", "rotation", "scale"}

\* A mouse move while no drag is in progress: the document listeners exist
\* only while isDragging (useEffect), so no handler runs.
MouseMoveIdle(x, y) ==
    /\ ~isDragging
    /\ lastEvent' = [type |-> "move", x |-> x, y |-> y]
    /\ UNCHANGED <<paramVars, isDragging, dragType, dragStart, dragStartValue,
                   lastUpdateTime, gestureStartType>>
    /\ UNCHANGED nonControlVars

\* The knob drags by themselves: every case of the switch in
\* handleKnobMouseDown ('zoom' included, which no element of the panel
\* starts), with pointer positions that give horizontal distances inside
\* and at the dead zone (2, 3) and distances that reach both ends of every
\* range.
KnobCases == {"frequency", "rotation", "scale", "zoom"}
DragXs == {0, 2, 3, 1300}
DragYs == {0, 200}

KnobsNext ==
    \/ \E x \in DragXs, y \in DragYs, type \in KnobCases : HandleKnobMouseDown(x, y, type)
    \/ \E x \in DragXs, y \in DragYs, now \in EventTimes : HandleMouseMove(x, y, now)
    \/ \E x \in DragXs, y \in DragYs : HandleMouseUp(x, y)

\* The values of the zoom range input of ConsoleFrame (min 1.0, max 5.0,
\* step 0.1), in thousandths.
ZoomInputValues == {1000 + 100 * k : k \in 0..40}

\* onChange of the zoom range input: onZoomChange(parseFloat(e.target.value)).
ZoomRangeInput(value) ==
    /\ zoom' = value
    /\ UNCHANGED <<patternType, rotation, scale, tint, dragVars>>
    /\ UNCHANGED nonControlVars

\* zoomScale of the pattern draw routines, in thousandths:
\* zoom >= 0 ? 1 + zoom : 1 / (1 - zoom).
zoomScale(z) == IF z >= 0 THEN 1000 + z ELSE 1000000 \div (1000 - z)

\* The ways the zoom is set: the range input and a 'zoom' drag.
ZoomNext ==
    \/ \E value \in ZoomInputValues : ZoomRangeInput(value)
    \/ \E y \in DragYs : HandleKnobMouseDown(0, y, "zoom")
    \/ \E y \in DragYs, now \in EventTimes : HandleMouseMove(0, y, now)
    \/ \E y \in DragYs : HandleMouseUp(0, y)

\* Pointer positions and click positions of the whole-panel specification:
\* one x step beyond every threshold (51 > 50), one y step beyond the colour
\* threshold (31 > 30), one click in the first and one in the last third.
KnobXs == {0, 51}
KnobYs == {0, 31}
KnobClickXs == {54, 486}

\* Every gesture on the control panel.
ControlsNext ==
    \/ \E x \in KnobClickXs : HandlePatternTypeClick(x)
    \/ \E x \in KnobXs, y \in KnobYs : HandlePatternTypeMouseDown(x, y)
    \/ \E x \in KnobXs, y \in KnobYs, type \in KnobTypes :
           HandleKnobMouseDown(x, y, type)
    \/ \E x \in KnobXs, y \in KnobYs : HandleColorSliderMouseDown(x, y)
    \/ \E x \in KnobXs, y \in KnobYs, now \in EventTimes : HandleMouseMove(x, y, now)
    \/ \E x \in KnobXs, y \in KnobYs : MouseMoveIdle(x, y)
    \/ \E x \in KnobXs, y \in KnobYs : HandleMouseUp(x, y)

\* The drags of the colour slider by themselves: pointer heights that give
\* vertical distances at the threshold (30), one beyond it (31) and far
\* beyond it, and event times that allow enough handled mouse-moves to reach
\* both ends of the palette from white and to go on dragging there.
SliderYs == {0, 30, 31, 400}
MaxSliderTime == 80
SliderTimes == {t \in throttleMs..MaxSliderTime : t % 8 = 0}

ColorSliderNext ==
    \/ \E y \in SliderYs : HandleColorSliderMouseDown(0, y)
    \/ \E y \in SliderYs, now \in SliderTimes : HandleMouseMove(0, y, now)
    \/ \E y \in SliderYs : HandleMouseUp(0, y)

(***************************************************************************)
(* Renderer: createP5Sketch (p.setup, p.draw, p.windowResized) and the     *)
(* wave sketch of ConsoleFrame (p.draw)                                    *)
(***************************************************************************)
\* The sizes a container can report, per measuring strategy, and the speeds
\* getParams() can return (noiseSpeed = 1 + iso / 1000 >= 1).
ClientSizes == {0, 50, 2500}
OffsetSizes == {0, 300}
RectSizes == {0, 2001}
NoiseSpeeds == {1, 2}
MaxAnimTime == 4

Containers ==
    [clientWidth : ClientSizes, clientHeight : ClientSizes,
     offsetWidth : OffsetSizes, offsetHeight : OffsetSizes,
     rectWidth : RectSizes, rectHeight : RectSizes]

NoFrame == [exception |-> "none", drawn |-> "nothing"]

RenderInit ==
    /\ container = [clientWidth |-> 0, clientHeight |-> 0, offsetWidth |-> 0,
                    offsetHeight |-> 0, rectWidth |-> 0, rectHeight |-> 0]
    /\ canvas = [created |-> FALSE, width |-> 0, height |-> 0]
    /\ time = 0
    /\ looping = TRUE
    /\ lastFrame = NoFrame

minCanvas == 100
maxCanvas == 2000
fallbackWidth == 500
fallbackHeight == 400

\* Strategies 1 to 3 of p.setup and p.windowResized: the first of
\* client, offset and bounding-rect sizes with both dimensions positive,
\* <<0, 0>> when there is none.
MeasuredSize(c) ==
    IF c.clientWidth > 0 /\ c.clientHeight > 0 THEN <<c.clientWidth, c.clientHeight>>
    ELSE IF c.offsetWidth > 0 /\ c.offsetHeight > 0 THEN <<c.offsetWidth, c.offsetHeight>>
    ELSE IF c.rectWidth > 0 /\ c.rectHeight > 0 THEN <<c.rectWidth, c.rectHeight>>
    ELSE <<0, 0>>

\* Mutant: the final safety check with the bounds swapped the wrong way
\* round (Math.min(Math.max(v, 2000), 100)).
ClampCanvasSwapped(v) == Min(Max(v, maxCanvas), minCanvas)

\* Math.max(Math.min(v, 2000), 100).
ClampCanvas(v) == Max(Min(v, maxCanvas), minCanvas)

\* The canvas size computed by p.setup and by p.windowResized.
CanvasSize(c) ==
    LET m == MeasuredSize(c)
        w == IF m[1] <= 0 \/ m[2] <= 0 THEN fallbackWidth ELSE m[1]
        h == IF m[1] <= 0 \/ m[2] <= 0 THEN fallbackHeight ELSE m[2]
    IN  <<ClampCanvas(w), ClampCanvas(h)>>

\* p.setup, with c the sizes the container reports: p.createCanvas(width,
\* height).
Setup(c) ==
    /\ ~canvas.created
    /\ container' = c
    /\ canvas' = [created |-> TRUE, width |-> CanvasSize(c)[1],
                  height |-> CanvasSize(c)[2]]
    /\ UNCHANGED <<time, looping, lastFrame>>
    /\ UNCHANGED nonRenderVars

\* p.windowResized, with c the sizes the container reports:
\* p.resizeCanvas(width, height).
WindowResized(c) ==
    /\ canvas.created
    /\ container' = c
    /\ canvas' = [created |-> TRUE, width |-> CanvasSize(c)[1],
                  height |-> CanvasSize(c)[2]]
    /\ UNCHANGED <<time, looping, lastFrame>>
    /\ UNCHANGED nonRenderVars

\* What p.draw of createP5Sketch leaves behind, by the exception raised in
\* the frame: getParams() throwing is caught by the inner try and the frame
\* is abandoned (return); a throwing draw routine reaches the outer catch,
\* which draws the fallback ellipse.
FrameResult(exception) ==
    CASE exception = "params" -> [exception |-> "params", drawn |-> "nothing"]
      [] exception = "draw"   -> [exception |-> "draw", drawn |-> "fallback"]
      [] OTHER                -> [exception |-> "none", drawn |-> "pattern"]

\* p.draw of createP5Sketch (lines 1021-1099) for one frame: ready is the
\* canvas/renderer check, exception what throws in this frame, noiseSpeed
\* the speed of the parameters read.
Draw(ready, exception, noiseSpeed) ==
    /\ canvas.created
    /\ looping
    /\ time + noiseSpeed <= MaxAnimTime
    /\ IF ~ready
         THEN /\ lastFrame' = NoFrame
              /\ UNCHANGED time
         ELSE /\ lastFrame' = FrameResult(exception)
              /\ time' = IF exception = "params" THEN time ELSE time + noiseSpeed
    /\ UNCHANGED <<container, canvas, looping>>
    /\ UNCHANGED nonRenderVars

\* p.draw of the wave sketch of ConsoleFrame (lines 97-106): no try/catch;
\* an exception of drawWavePattern leaves the function, and whether the
\* host library schedules another frame after it is not decided here.
WaveSketchDraw(throws, continues) ==
    /\ canvas.created
    /\ looping
    /\ IF throws
         THEN /\ lastFrame' = [exception |-> "uncaught", drawn |-> "nothing"]
              /\ looping' = continues
         ELSE /\ lastFrame' = [exception |-> "none", drawn |-> "pattern"]
              /\ UNCHANGED looping
    /\ UNCHANGED <<container, canvas, time>>
    /\ UNCHANGED nonRenderVars

RenderNext ==
    \/ \E c \in Containers : Setup(c)
    \/ \E c \in Containers : WindowResized(c)
    \/ \E ready \in BOOLEAN, exception \in {"none", "params", "draw"},
          noiseSpeed \in NoiseSpeeds : Draw(ready, exception, noiseSpeed)
    \/ \E throws \in BOOLEAN, continues \in BOOLEAN : WaveSketchDraw(throws, continues)

(***************************************************************************)
(* Metadata extraction: extractRealMetadata and its stages                 *)
(***************************************************************************)
\* String.prototype.includes.
includes(s, sub) ==
    \E i \in 1..(Len(s) - Len(sub) + 1) : SubSeq(s, i, i + Len(sub) - 1) = sub

\* \d and the value of a digit.
IsDigit(c) == \E k \in 1..Len(DigitChars) : DigitChars[k] = c
DigitValue(c) == (CHOOSE k \in 1..Len(DigitChars) : DigitChars[k] = c) - 1

\* parseInt of a string of two digits.
parseInt2(s) == 10 * DigitValue(s[1]) + DigitValue(s[2])

\* /img_(\d{4})(\d{2})(\d{2})_(\d{2})(\d{2})(\d{2})/ at position i of s.
DatePatternAt(s, i) ==
    /\ i + 18 <= Len(s)
    /\ SubSeq(s, i, i + 3) = <<"i", "m", "g", "_">>
    /\ \A k \in (i + 4)..(i + 11) : IsDigit(s[k])
    /\ s[i + 12] = "_"
    /\ \A k \in (i + 13)..(i + 18) : IsDigit(s[k])

\* Mutant: the file name is never recognised.
DateMatchNever(s) == Null

\* fileName.match(...): Null, or the six groups of the leftmost match.
DateMatch(s) ==
    IF \E i \in 1..Len(s) : DatePatternAt(s, i)
      THEN LET i == CHOOSE j \in 1..Len(s) :
                       /\ DatePatternAt(s, j)
                       /\ \A k \in 1..(j - 1) : ~DatePatternAt(s, k)
           IN  <<SubSeq(s, i + 4, i + 7), SubSeq(s, i + 8, i + 9),
                 SubSeq(s, i + 10, i + 11), SubSeq(s, i + 13, i + 14),
                 SubSeq(s, i + 15, i + 16), SubSeq(s, i + 17, i + 18)>>
      ELSE Null

\* Mutant: the day lasts until 23.
TimeOfDayOfHourLateDay(hour) == IF hour >= 6 /\ hour < 23 THEN "day" ELSE "night"

\* (hour >= 6 && hour < 18) ? 'day' : 'night'.
TimeOfDayOfHour(hour) == IF hour >= 6 /\ hour < 18 THEN "day" ELSE "night"

\* The season of a month number; NaN (0 here: an invalid date) compares
\* false everywhere and ends in the else branch.
SeasonOfMonth(month) ==
    IF month >= 3 /\ month <= 5 THEN "spring"
    ELSE IF month >= 6 /\ month <= 8 THEN "summer"
    ELSE IF month >= 9 /\ month <= 11 THEN "autumn"
    ELSE "winter"

\* new Date(metadata.date).getMonth() + 1 for a date YYYY-MM-DD (days in the
\* middle of the month, where the time zone does not move the month).
MonthOfDate(date) ==
    LET m == parseInt2(SubSeq(date, 6, 7))
    IN  IF m \in 1..12 THEN m ELSE 0

\* The files, images, pixel statistics and random draws that are tried.
\* Math.random() is a draw in hundredths.
FileNames ==
    {<<"I", "M", "G", "_", "2", "0", "2", "3", "0", "6", "1", "5", "_",
       "1", "4", "3", "0", "0", "0", ".", "j", "p", "g">>,
     <<"I", "M", "G", "_", "2", "0", "2", "3", "1", "2", "2", "4", "_",
       "2", "2", "1", "5", "0", "0", ".", "j", "p", "g">>,
     <<"I", "M", "G", "_", "7", ".", "j", "p", "g">>,
     <<"p", "h", "o", "t", "o", ".", "p", "n", "g">>}
FileSizes == {1500000, 7200000}
\* new Date(file.lastModified): its ISO date, its time and its hour.
FileTimes ==
    {[date |-> <<"2", "0", "2", "4", "-", "0", "4", "-", "1", "0">>,
      time |-> <<"2", "3", ":", "0", "5", ":", "0", "9">>, hour |-> 23]}
Files == [name : FileNames, size : FileSizes, lastModified : FileTimes]
Images == {[width |-> 4000, height |-> 3000], [width |-> 3000, height |-> 4000]}
PixelStatistics ==
    [avgBrightness : {50, 120, 220}, avgColorVariance : {10, 70}]
RandomDraws == {10, 90}

\* A metadata record holds, per field, Null (the key is absent, undefined)
\* or <<value>>. Apertures are in tenths.
Fields ==
    {"width", "height", "phoneType", "lensType", "iso", "aperture", "flash",
     "orientation", "date", "time", "timeOfDay", "season"}
NoMetadata == [f \in Fields |-> Null]

\* analyzeImageCharacteristics once the 2d context is there (lines 173-274):
\* the device and lens guess from aspect ratio, megapixels and file size,
\* iso from the colour variance, flash and timeOfDay from the brightness.
AnalysisOf(file, image, pixels, draws) ==
    LET portraitHighRes ==
            /\ 10 * image.width > 7 * image.height
            /\ 10 * image.width < 8 * image.height
            /\ image.width * image.height > 10 * 1000000
        phoneType == IF portraitHighRes THEN "iPhone 15 Pro" ELSE "Smartphone"
        lensType ==
            IF ~portraitHighRes THEN "Wide"
            ELSE IF file.size > 1000000 /\ file.size < 2000000 THEN "Ultra Wide"
            ELSE IF file.size > 2000000 THEN "Wide"
            ELSE "Front"
        iso == IF pixels.avgColorVariance < 20 THEN 32
               ELSE IF pixels.avgColorVariance < 40 THEN 100
               ELSE IF pixels.avgColorVariance < 60 THEN 200
               ELSE 400
        aperture ==
            IF phoneType = "iPhone 15 Pro"
              THEN CASE lensType = "Ultra Wide" -> 22
                     [] lensType = "Wide" -> 18
                     [] lensType = "Telephoto" -> 28
                     [] OTHER -> 18
              ELSE 18
        flash == IF pixels.avgBrightness > 200 THEN FALSE
                 ELSE IF pixels.avgBrightness < 100 THEN TRUE
                 ELSE draws.flash < 20
        timeOfDay == IF pixels.avgBrightness > 150 THEN "day"
                     ELSE IF pixels.avgBrightness < 80 THEN "night"
                     ELSE IF draws.timeOfDay < 70 THEN "day" ELSE "night"
    IN  [NoMetadata EXCEPT !.phoneType = <<phoneType>>, !.lensType = <<lensType>>,
                           !.iso = <<iso>>, !.aperture = <<aperture>>,
                           !.flash = <<flash>>, !.timeOfDay = <<timeOfDay>>]

\* analyzeImageCharacteristics: {} without a 2d context.
analyzeImageCharacteristics(hasContext, file, image, pixels, draws) ==
    IF hasContext THEN AnalysisOf(file, image, pixels, draws) ELSE NoMetadata

\* Mutant: only the generic size buckets, whatever the file name.
detectPhoneTypeFromFileBySizeOnly(fileName, fileSize) ==
    IF fileSize > 10000000 THEN "Professional DSLR"
    ELSE IF fileSize > 5000000 THEN "Smartphone"
    ELSE "Basic Camera"

\* detectPhoneTypeFromFile(fileName, fileSize).
detectPhoneTypeFromFile(fileName, fileSize) ==
    LET fileNameLower == toLowerCase(fileName)
    IN  IF \/ includes(fileNameLower, <<"i", "m", "g", "_">>)
           \/ includes(fileNameLower, <<"i", "p", "h", "o", "n", "e">>)
          THEN IF fileSize > 8000000 THEN "iPhone 15 Pro"
               ELSE IF fileSize > 6000000 THEN "iPhone 15"
               ELSE IF fileSize > 4000000 THEN "iPhone 14 Pro"
               ELSE "iPhone 15 Pro"
        ELSE IF \/ includes(fileNameLower, <<"s", "a", "m", "s", "u", "n", "g">>)
                \/ includes(fileNameLower, <<"g", "a", "l", "a", "x", "y">>)
          THEN IF fileSize > 10000000 THEN "Samsung Galaxy S24 Ultra"
               ELSE IF fileSize > 6000000 THEN "Samsung Galaxy S24"
               ELSE "Samsung Galaxy"
        ELSE IF includes(fileNameLower, <<"p", "i", "x", "e", "l">>)
          THEN IF fileSize > 8000000 THEN "Google Pixel 8 Pro" ELSE "Google Pixel 8"
        ELSE IF includes(fileNameLower, <<"o", "n", "e", "p", "l", "u", "s">>)
          THEN "OnePlus"
        ELSE IF \/ includes(fileNameLower, <<"x", "i", "a", "o", "m", "i">>)
                \/ includes(fileNameLower, <<"m", "i">>)
          THEN "Xiaomi"
        ELSE IF fileSize > 10000000 THEN "Professional DSLR"
        ELSE IF fileSize > 5000000 THEN "Smartphone"
        ELSE "Basic Camera"

\* lensTypes[Math.floor(Math.random() * lensTypes.length)].
PickByDraw(list, draw) == list[((draw * Len(list)) \div 100) + 1]

\* detectLensTypeFromFile(fileName, fileSize, aspectRatio), aspectRatio being
\* width / height of image, with the draw of its Math.random().
detectLensTypeFromFile(fileName, fileSize, image, draw) ==
    LET fileNameLower == toLowerCase(fileName)
        w == image.width
        h == image.height
    IN  IF \/ includes(fileNameLower, <<"i", "m", "g", "_">>)
           \/ includes(fileNameLower, <<"i", "p", "h", "o", "n", "e">>)
          THEN IF \/ includes(fileNameLower, <<"f", "r", "o", "n", "t">>)
                  \/ includes(fileNameLower, <<"s", "e", "l", "f", "i", "e">>)
                  \/ includes(fileNameLower, <<"p", "o", "r", "t", "r", "a", "i", "t">>)
                 THEN "Front"
               ELSE IF fileSize > 10000000
                 THEN IF draw > 60 THEN "Telephoto" ELSE "Ultra Wide"
               ELSE IF fileSize > 8000000
                 THEN PickByDraw(<<"Wide", "Ultra Wide", "Telephoto">>, draw)
               ELSE IF fileSize > 6000000
                 THEN IF draw > 80 THEN "Ultra Wide" ELSE "Wide"
               ELSE IF fileSize > 4000000
                 THEN PickByDraw(<<"Wide", "Ultra Wide", "Telephoto">>, draw)
               ELSE IF fileSize < 2000000
                 THEN IF draw > 70 THEN "Front" ELSE "Wide"
               ELSE IF draw < 40 THEN "Wide"
               ELSE IF draw < 80 THEN "Ultra Wide"
               ELSE IF draw < 95 THEN "Telephoto"
               ELSE "Front"
        ELSE IF \/ includes(fileNameLower, <<"s", "a", "m", "s", "u", "n", "g">>)
                \/ includes(fileNameLower, <<"g", "a", "l", "a", "x", "y">>)
          THEN IF fileSize > 10000000
                 THEN PickByDraw(<<"Ultra Wide", "Telephoto">>, draw)
               ELSE IF fileSize > 6000000
                 THEN IF draw > 70 THEN "Ultra Wide" ELSE "Wide"
               ELSE IF draw > 80 THEN "Ultra Wide" ELSE "Wide"
        ELSE IF includes(fileNameLower, <<"p", "i", "x", "e", "l">>)
          THEN IF fileSize > 8000000
                 THEN PickByDraw(<<"Ultra Wide", "Telephoto">>, draw)
               ELSE IF draw > 60 THEN "Wide" ELSE "Ultra Wide"
        ELSE IF 10 * w > 15 * h
          THEN IF draw > 30 THEN "Ultra Wide" ELSE "Wide"
        ELSE IF 10 * w < 7 * h
          THEN IF draw > 40 THEN "Telephoto" ELSE "Front"
        ELSE IF fileSize > 8000000
          THEN PickByDraw(<<"Ultra Wide", "Telephoto">>, draw)
        ELSE IF fileSize > 5000000
          THEN IF draw < 60 THEN "Wide"
               ELSE IF draw < 80 THEN "Ultra Wide"
               ELSE "Telephoto"
        ELSE IF draw < 70 THEN "Wide"
        ELSE IF draw < 90 THEN "Front"
        ELSE "Ultra Wide"

\* phoneType.includes('iPhone'), phoneType.includes('Samsung').
IsIPhone(phoneType) == phoneType \in {"iPhone 15 Pro", "iPhone 15", "iPhone 14 Pro"}
IsSamsung(phoneType) ==
    phoneType \in {"Samsung Galaxy S24 Ultra", "Samsung Galaxy S24", "Samsung Galaxy"}

\* extractFromFileProperties(file, imageElement), with the draws of its
\* Math.random() calls: it starts from an empty record, so that every
\* "only if not already set" test passes.
extractFromFileProperties(file, image, draws) ==
    LET fileName == toLowerCase(file.name)
        fileSize == file.size
        phoneType == detectPhoneTypeFromFile(fileName, fileSize)
        lensType == detectLensTypeFromFile(fileName, fileSize, image, draws.lens)
        iso == IF fileSize > 8000000 THEN (IF draws.iso > 50 THEN 32 ELSE 64)
               ELSE IF fileSize > 4000000 THEN (IF draws.iso > 50 THEN 100 ELSE 200)
               ELSE PickByDraw(<<32, 64, 100, 200, 400>>, draws.iso)
        aperture ==
            IF IsIPhone(phoneType)
              THEN CASE lensType = "Wide" -> IF draws.aperture > 50 THEN 15 ELSE 18
                     [] lensType = "Ultra Wide" -> IF draws.aperture > 50 THEN 22 ELSE 24
                     [] lensType = "Telephoto" -> IF draws.aperture > 50 THEN 28 ELSE 30
                     [] OTHER -> 18
            ELSE IF IsSamsung(phoneType)
              THEN IF draws.aperture > 50 THEN 18 ELSE 24
            ELSE IF draws.aperture > 50 THEN 18 ELSE 22
        flash == draws.flash < 20
        orientation ==
            IF 10 * image.width > 13 * image.height THEN 1
            ELSE IF 10 * image.width < 8 * image.height THEN 6
            ELSE 1
        dateMatch == DateMatch(fileName)
        date == IF dateMatch # Null
                  THEN dateMatch[1] \o <<"-">> \o dateMatch[2] \o <<"-">> \o dateMatch[3]
                  ELSE file.lastModified.date
        timeString == IF dateMatch # Null
                  THEN dateMatch[4] \o <<":">> \o dateMatch[5] \o <<":">> \o dateMatch[6]
                  ELSE file.lastModified.time
        hour == IF dateMatch # Null THEN parseInt2(dateMatch[4])
                ELSE file.lastModified.hour
    IN  [NoMetadata EXCEPT
            !.phoneType = <<phoneType>>, !.lensType = <<lensType>>,
            !.iso = <<iso>>, !.aperture = <<aperture>>, !.flash = <<flash>>,
            !.orientation = <<orientation>>, !.date = <<date>>, !.time = <<timeString>>,
            !.timeOfDay = <<TimeOfDayOfHour(hour)>>,
            !.season = <<SeasonOfMonth(MonthOfDate(date))>>]

\* JavaScript's null as the value of a field: a pair, unlike every <<value>>.
JsNull == <<Null, Null>>

\* extractWithExifTool: the record built from the service's answer (lines
\* 140-154). The service always sends phoneType, lensType and flash; iso,
\* aperture and orientation only when the tags are there; date, time and
\* timeOfDay are null without DateTimeOriginal; there is no season key.
ExifToolResults ==
    {[NoMetadata EXCEPT
        !.phoneType = <<"Unknown">>, !.lensType = <<"Wide">>,
        !.iso = i, !.aperture = i, !.flash = <<FALSE>>, !.orientation = i,
        !.date = d[1], !.time = d[2], !.timeOfDay = d[3],
        !.width = <<4032>>, !.height = <<3024>>] :
     i \in {Null, <<125>>},
     d \in {<<JsNull, JsNull, JsNull>>,
            <<<< <<"2", "0", "2", "1", "-", "0", "7", "-", "1", "5">> >>,
              << <<"0", "9", ":", "0", "0", ":", "0", "0">> >>,
              <<"day">>>>}}

\* extractEXIFDataModern: each tag is copied only when the file carries it.
ExifResults ==
    {[NoMetadata EXCEPT
        !.iso = i, !.orientation = o,
        !.date = d[1], !.time = d[2], !.timeOfDay = d[3]] :
     i \in {Null, <<50>>}, o \in {Null, <<8>>},
     d \in {<<Null, Null, Null>>,
            <<<< <<"2", "0", "2", "2", "-", "0", "1", "-", "1", "2">> >>,
              << <<"0", "3", ":", "0", "4", ":", "0", "5">> >>,
              <<"night">>>>}}

AnalysisDraws == [flash : RandomDraws, timeOfDay : RandomDraws]
FileDraws == [lens : RandomDraws, iso : RandomDraws, aperture : RandomDraws,
              flash : RandomDraws]

NoExtraction ==
    [pc |-> "idle", file |-> Null, imageElement |-> [width |-> 0, height |-> 0],
     imageAnalysis |-> NoMetadata, exifOutcome |-> "none",
     exifData |-> NoMetadata, fileBasedData |-> NoMetadata,
     metadata |-> NoMetadata, source |-> "none"]

ExtractInit == extraction = NoExtraction

\* Object.assign(target, source): every key of source is written.
ObjectAssign(target, source) ==
    [f \in Fields |-> IF source[f] # Null THEN source[f] ELSE target[f]]

\* Mutant: the embedded tags are merged with Object.assign.
MergeExifOverwriting(metadata, exifOutcome, exifData) ==
    IF exifOutcome = "record" THEN ObjectAssign(metadata, exifData) ELSE metadata

\* Lines 87-96: if (exifData), each of its keys is written where
\* metadata[key] === undefined.
MergeExif(metadata, exifOutcome, exifData) ==
    IF exifOutcome = "record"
      THEN [f \in Fields |->
              IF exifData[f] # Null /\ metadata[f] = Null THEN exifData[f]
              ELSE metadata[f]]
      ELSE metadata

\* Mutant: the file-based values are not merged.
MergeFileBasedSkipped(metadata, fileBasedData) == metadata

\* Lines 106-111: each key of fileBasedData is written where metadata[key]
\* is undefined or null.
MergeFileBased(metadata, fileBasedData) ==
    [f \in Fields |->
        IF fileBasedData[f] # Null /\ (metadata[f] = Null \/ metadata[f] = JsNull)
          THEN fileBasedData[f]
          ELSE metadata[f]]

\* The call, up to await extractWithExifTool(file).
ExtractRealMetadata(file, imageElement) ==
    /\ extraction.pc \in {"idle", "resolved", "rejected"}
    /\ extraction' = [NoExtraction EXCEPT
                        !.pc = "exiftool",
                        !.file = file,
                        !.imageElement = imageElement]
    /\ UNCHANGED nonExtractVars

\* extractWithExifTool has settled: with a record, which is returned as it
\* is, or with null (service unreachable, non-200 or malformed answer: its
\* own catch returns null); then up to await analyzeImageCharacteristics.
ExifToolSettled(found, exifToolMetadata) ==
    /\ extraction.pc = "exiftool"
    /\ extraction' =
         IF found
           THEN [extraction EXCEPT !.pc = "resolved", !.source = "exiftool",
                                   !.metadata = exifToolMetadata]
           ELSE [extraction EXCEPT !.pc = "analysis"]
    /\ UNCHANGED nonExtractVars

\* analyzeImageCharacteristics has settled (line 70, under no try): when it
\* throws, the exception leaves extractRealMetadata, whose promise rejects;
\* otherwise lines 74-82 and up to await extractEXIFDataModern.
AnalysisSettled(throws, imageAnalysis) ==
    /\ extraction.pc = "analysis"
    /\ extraction' =
         IF throws
           THEN [extraction EXCEPT !.pc = "rejected"]
           ELSE [extraction EXCEPT
                   !.pc = "exif",
                   !.imageAnalysis = imageAnalysis,
                   !.metadata = ObjectAssign(
                       [NoMetadata EXCEPT
                          !.width = <<extraction.imageElement.width>>,
                          !.height = <<extraction.imageElement.height>>],
                       imageAnalysis)]
    /\ UNCHANGED nonExtractVars

\* extractEXIFDataModern has settled, with a record, with null or by
\* throwing (caught at line 97); then lines 87-114 to the return.
ExifSettled(exifOutcome, exifData, fileBasedData) ==
    /\ extraction.pc = "exif"
    /\ exifOutcome = "record" \/ exifData = NoMetadata
    /\ extraction' =
         [extraction EXCEPT
            !.pc = "resolved",
            !.source = "client",
            !.exifOutcome = exifOutcome,
            !.exifData = exifData,
            !.fileBasedData = fileBasedData,
            !.metadata = MergeFileBased(
                MergeExif(extraction.metadata, exifOutcome, exifData),
                fileBasedData)]
    /\ UNCHANGED nonExtractVars

ExtractNext ==
    \/ \E file \in Files, image \in Images : ExtractRealMetadata(file, image)
    \/ \E m \in ExifToolResults : ExifToolSettled(TRUE, m)
    \/ ExifToolSettled(FALSE, NoMetadata)
    \/ \E hasContext \in BOOLEAN, pixels \in PixelStatistics, draws \in AnalysisDraws :
          AnalysisSettled(FALSE,
              analyzeImageCharacteristics(hasContext, extraction.file,
                                          extraction.imageElement, pixels, draws))
    \/ AnalysisSettled(TRUE, NoMetadata)
    \/ \E o \in {"record", "null", "throws"}, x \in ExifResults, draws \in FileDraws :
          ExifSettled(o, x,
              extractFromFileProperties(extraction.file, extraction.imageElement, draws))

(***************************************************************************)
(* Parameter mapping: mapMetadataToP5Params and mapIsoToDensity            *)
(***************************************************************************)
\* The sensitivities tried: -NegIsoInputs .. MaxIsoInput.
NegIsoInputs == 3
MaxIsoInput == 2010
IsoValues == (0 - NegIsoInputs)..MaxIsoInput

minIso == 24
maxIso == 2000
minDensity == 5
maxDensity == 100
defaultDensity == 30

\* The clamped sensitivities at which minDensity + normalizedIso * 0.95 is
\* k + 0.5 hundredths in exact arithmetic but the double computed by line
\* 2074 is just below it, so that Math.round goes down.
RoundsBelowHalf == {388, 492}

\* JavaScript's !iso: undefined or 0.
Falsy(iso) == iso = Null \/ iso[1] = 0

\* Mutant: the scale runs downwards (maxDensity at minIso).
mapIsoToDensityInverted(iso) ==
    IF Falsy(iso) THEN defaultDensity
    ELSE LET clampedIso == Max(minIso, Min(maxIso, iso[1]))
         IN  maxDensity - ((maxDensity - minDensity) * (clampedIso - minIso)) \div (maxIso - minIso)

\* mapIsoToDensity, in hundredths: Math.round(x * 100) / 100 of
\* x = minDensity + (clampedIso - minIso) / (maxIso - minIso) * 0.95.
mapIsoToDensity(iso) ==
    IF Falsy(iso) THEN defaultDensity
    ELSE LET clampedIso == Max(minIso, Min(maxIso, iso[1]))
             range == maxIso - minIso
             scaled == minDensity * range + (maxDensity - minDensity) * (clampedIso - minIso)
             halfUp == (2 * scaled + range) \div (2 * range)
         IN  IF clampedIso \in RoundsBelowHalf THEN halfUp - 1 ELSE halfUp

MappingInit ==
    /\ metadataIso = Null
    /\ density = mapIsoToDensity(Null)

\* mapMetadataToP5Params(metadata): const density = mapIsoToDensity(metadata.iso).
MapMetadataToP5Params(iso) ==
    /\ metadataIso' = iso
    /\ density' = mapIsoToDensity(iso)
    /\ UNCHANGED nonMappingVars

MappingNext ==
    \/ MapMetadataToP5Params(Null)
    \/ \E n \in IsoValues : MapMetadataToP5Params(<<n>>)

(***************************************************************************)
(* Metadata service: app.post('/api/extract-metadata', ...)                *)
(***************************************************************************)
NoResponse == [status |-> 0, kind |-> "none", message |-> ""]

ServerInit ==
    requests = [r \in 1..MaxRequests |->
                  [pc |-> "new", stored |-> FALSE, unlinks |-> 0, onDisk |-> FALSE,
                   responses |-> 0, response |-> NoResponse, outcome |-> "none"]]

\* res.status(status).json({error: message}) for the request record req.
RespondError(req, status, message) ==
    [req EXCEPT !.responses = @ + 1,
                !.response = [status |-> status, kind |-> "error", message |-> message]]

\* res.json(processedMetadata): status 200 with the metadata JSON.
RespondMetadata(req) ==
    [req EXCEPT !.responses = @ + 1,
                !.response = [status |-> 200, kind |-> "metadata", message |-> ""]]

\* The reply of the handler when req.file is missing (lines 36-38).
NoFileResponse(req) == RespondError(req, 400, "No image file provided")

\* The route handler up to the exec call: multer has stored the file (if
\* any) before the handler runs.
PostExtractMetadata(r, hasFile) ==
    /\ requests[r].pc = "new"
    /\ requests' = [requests EXCEPT ![r] =
          IF ~hasFile
            THEN [NoFileResponse(@) EXCEPT !.pc = "responded"]
            ELSE [@ EXCEPT !.pc = "executing", !.stored = TRUE, !.onDisk = TRUE]]
    /\ UNCHANGED nonServerVars

\* fs.unlink(imagePath, cb) at the head of the exec callback.
StartUnlink(req) == [req EXCEPT !.unlinks = @ + 1, !.pc = "unlinking"]

\* Mutant: the 200 status also on the parse-error path (status(500) forgotten
\* in the catch block).
ExecReplyParseErrorAs200(req, outcome) ==
    CASE outcome = "execError"  -> RespondError(req, 500, "Failed to extract metadata")
      [] outcome = "parseError" -> RespondError(req, 200, "Failed to parse metadata")
      [] OTHER                  -> RespondMetadata(req)

\* Mutant: the `return` of the error path forgotten: after the 500 reply the
\* callback goes on to JSON.parse the empty output and replies again from
\* the catch block.
ExecReplyErrorFallsThrough(req, outcome) ==
    CASE outcome = "execError"  ->
             RespondError(RespondError(req, 500, "Failed to extract metadata"),
                          500, "Failed to parse metadata")
      [] outcome = "parseError" -> RespondError(req, 500, "Failed to parse metadata")
      [] OTHER                  -> RespondMetadata(req)

\* The reply chosen by the exec callback: `error` set (lines 52-55),
\* JSON.parse or the field accesses on its result throwing (lines 80-83), or
\* success (line 79).
ExecReply(req, outcome) ==
    CASE outcome = "execError"  -> RespondError(req, 500, "Failed to extract metadata")
      [] outcome = "parseError" -> RespondError(req, 500, "Failed to parse metadata")
      [] OTHER                  -> RespondMetadata(req)

\* Mutant: the cleanup placed after the early return of the error path, so
\* an exiftool failure leaves the upload on disk.
ExecCallbackBodyLeakOnError(req, outcome) ==
    [(IF outcome = "execError"
        THEN ExecReply([req EXCEPT !.pc = "responded"], outcome)
        ELSE ExecReply(StartUnlink(req), outcome)) EXCEPT !.outcome = outcome]

\* The body of the exec callback (lines 46-84): cleanup first, then the reply.
ExecCallbackBody(req, outcome) ==
    [ExecReply(StartUnlink(req), outcome) EXCEPT !.outcome = outcome]

ExecCallback(r, outcome) ==
    /\ requests[r].pc = "executing"
    /\ requests' = [requests EXCEPT ![r] = ExecCallbackBody(@, outcome)]
    /\ UNCHANGED nonServerVars

\* The unlink callback: the file is gone, or unlinkError is logged.
UnlinkCallback(r, ok) ==
    /\ requests[r].pc = "unlinking"
    /\ requests' = [requests EXCEPT ![r].pc = "responded",
                                    ![r].onDisk = IF ok THEN FALSE ELSE @]
    /\ UNCHANGED nonServerVars

ServerNext ==
    \/ \E r \in 1..MaxRequests : \E hasFile \in BOOLEAN : PostExtractMetadata(r, hasFile)
    \/ \E r \in 1..MaxRequests :
          \E outcome \in {"execError", "parseError", "ok"} : ExecCallback(r, outcome)
    \/ \E r \in 1..MaxRequests : \E ok \in BOOLEAN : UnlinkCallback(r, ok)

(***************************************************************************)
(* GPS conversion: convertDMSToDD (client) and parseGPS (service)          *)
(***************************************************************************)
\* A coordinate tag: the numbers read (degrees, minutes, seconds; two
\* numbers when the seconds are missing) and the hemisphere letter.
\* Decimal degrees are kept in arc seconds (1/3600 degree).
DmsValues ==
    {<<d, m, s>> : d \in {0, 40}, m \in {0, 30}, s \in {0, 39}} \cup {<<40, 30>>}
HemisphereLetters == {"N", "S", "E", "W"}
CoordinateTags == [dms : DmsValues, ref : HemisphereLetters]

\* dms[0] + dms[1] / 60 + dms[2] / (60 * 60), in arc seconds.
DecimalDegrees(dms) == dms[1] * 3600 + dms[2] * 60 + dms[3]

\* Mutant: only the letter S negates.
convertDMSToDDSouthOnly(dms, ref) ==
    IF Len(dms) # 3 THEN Null
    ELSE IF ref = "S" THEN <<0 - DecimalDegrees(dms)>>
    ELSE <<DecimalDegrees(dms)>>

\* convertDMSToDD(dms, ref): Null for null, <<dd>> otherwise.
convertDMSToDD(dms, ref) ==
    IF Len(dms) # 3 THEN Null
    ELSE IF ref = "S" \/ ref = "W" THEN <<DecimalDegrees(dms) * (0 - 1)>>
    ELSE <<DecimalDegrees(dms)>>

\* latStr.match(/(\d+) deg (\d+)' ([\d.]+)" ([NS])/): the three numbers and
\* one of the letters allowed on the axis.
GpsMatch(tag, letters) == Len(tag.dms) = 3 /\ tag.ref \in letters

\* parseGPS(latStr, lonStr): Null for null, <<latitude, longitude>> otherwise.
parseGPS(lat, lon) ==
    IF GpsMatch(lat, {"N", "S"}) /\ GpsMatch(lon, {"E", "W"})
      THEN <<IF lat.ref = "S" THEN 0 - DecimalDegrees(lat.dms)
                              ELSE DecimalDegrees(lat.dms),
             IF lon.ref = "W" THEN 0 - DecimalDegrees(lon.dms)
                              ELSE DecimalDegrees(lon.dms)>>
      ELSE Null

GpsInit ==
    /\ gpsTags = Null
    /\ gpsParser = "none"
    /\ gps = Null

\* The client's tag reader (lines 437-450): both coordinates are converted,
\* and metadata.gps is set when neither is null.
ReadExifGps(lat, lon) ==
    /\ gpsTags' = <<lat, lon>>
    /\ gpsParser' = "client"
    /\ gps' =
         LET la == convertDMSToDD(lat.dms, lat.ref)
             lng == convertDMSToDD(lon.dms, lon.ref)
         IN  IF la # Null /\ lng # Null THEN <<la[1], lng[1]>> ELSE Null
    /\ UNCHANGED nonGpsVars

\* The service's gps: parseGPS(metadata.GPSLatitude, metadata.GPSLongitude).
ServiceParseGps(lat, lon) ==
    /\ gpsTags' = <<lat, lon>>
    /\ gpsParser' = "service"
    /\ gps' = parseGPS(lat, lon)
    /\ UNCHANGED nonGpsVars

GpsNext ==
    \/ \E lat \in CoordinateTags, lon \in CoordinateTags : ReadExifGps(lat, lon)
    \/ \E lat \in CoordinateTags, lon \in CoordinateTags : ServiceParseGps(lat, lon)

(***************************************************************************)
(* Tinting: applyTint of metadataExtractor.ts (HSB blend) and the tint     *)
(* branch of ConsoleFrame.jsx's canvas pattern routines (RGB multiply).    *)
(* HSB components are in hundredths (hue 0..36000, the others 0..10000),   *)
(* RGB components are bytes.                                               *)
(***************************************************************************)

\* parseInt(tint.slice(1, 3), 16), (3, 5), (5, 7) for the hex colours the
\* colour slider emits (colorValues).
HexRgb(hex) ==
    CASE hex = "#FD0004" -> <<253, 0, 4>>
      [] hex = "#E86615" -> <<232, 102, 21>>
      [] hex = "#FFFF00" -> <<255, 255, 0>>
      [] hex = "#FFFFFF" -> <<255, 255, 255>>
      [] hex = "#00FF1E" -> <<0, 255, 30>>
      [] hex = "#002AFF" -> <<0, 42, 255>>
      [] hex = "#8015E8" -> <<128, 21, 232>>

Max3(rgb) == Max(rgb[1], Max(rgb[2], rgb[3]))
Min3(rgb) == Min(rgb[1], Min(rgb[2], rgb[3]))

\* p.hue, p.saturation, p.brightness of an RGB colour in colorMode(HSB, 360,
\* 100, 100, 100): value = max channel, chroma = max - min, saturation =
\* chroma / value, hue by the channel that holds the maximum.
Hue(rgb) ==
    LET val == Max3(rgb)
        chroma == val - Min3(rgb)
    IN  IF chroma = 0 THEN 0
        ELSE IF rgb[1] = val
               THEN ((6000 * (rgb[2] - rgb[3])) \div chroma) % 36000
        ELSE IF rgb[2] = val
               THEN 12000 + (6000 * (rgb[3] - rgb[1])) \div chroma
        ELSE 24000 + (6000 * (rgb[1] - rgb[2])) \div chroma

Saturation(rgb) ==
    IF Max3(rgb) = Min3(rgb) THEN 0
    ELSE (10000 * (Max3(rgb) - Min3(rgb))) \div Max3(rgb)

Brightness(rgb) == (10000 * Max3(rgb)) \div 255

\* The tints a routine may be given: none (null) or one of colorValues.
TintColors == {Null} \cup {<<colorValues[i]>> : i \in 1..Len(colorValues)}

\* The original colours applyTint is given, as [h, s, b, a].
OriginalColors ==
    [h : {0, 20000, 35000}, s : {0, 6000, 9500}, b : {5000, 9700, 10000},
     a : {10000}]

white == <<255, 255, 255>>

TintInit ==
    /\ tintRoutine = "none"
    /\ tintColor = Null
    /\ baseColor = white
    /\ fillColor = white

\* applyTint(p, color, tintColor): the colour itself for a falsy tint, else
\* the HSB blend.
applyTint(color, tintArg) ==
    IF tintArg = Null THEN color
    ELSE LET t == HexRgb(tintArg[1])
         IN  [h |-> (color.h + (Hue(t) * 3) \div 10) % 36000,
              s |-> Min(10000, color.s + (Saturation(t) * 2) \div 10),
              b |-> Min(10000, color.b + (Brightness(t) - 5000) \div 10),
              a |-> color.a]

\* The tint branch of drawWavePattern (the same in the bump and dot
\* routines): white multiplied by the tint, or white.
WaveFill(tintArg) ==
    IF tintArg # Null /\ tintArg[1] # "#FFFFFF"
      THEN LET t == HexRgb(tintArg[1])
           IN  <<Min(255, (255 * t[1]) \div 255),
                 Min(255, (255 * t[2]) \div 255),
                 Min(255, (255 * t[3]) \div 255)>>
      ELSE white

\* A pattern routine of createP5Sketch fills a primitive with
\* applyTint(p, originalColor, params.tintColor).
ApplyTint(color, tintArg) ==
    /\ tintRoutine' = "applyTint"
    /\ tintColor' = tintArg
    /\ baseColor' = color
    /\ fillColor' = applyTint(color, tintArg)
    /\ UNCHANGED nonTintVars

\* A canvas pattern routine of ConsoleFrame fills a primitive.
DrawWavePattern(tintArg) ==
    /\ tintRoutine' = "wave"
    /\ tintColor' = tintArg
    /\ baseColor' = white
    /\ fillColor' = WaveFill(tintArg)
    /\ UNCHANGED nonTintVars

TintNext ==
    \/ \E color \in OriginalColors, tintArg \in TintColors :
           ApplyTint(color, tintArg)
    \/ \E tintArg \in TintColors : DrawWavePattern(tintArg)

(***************************************************************************)
(* A session at the console: one upload, the gestures of the control       *)
(* panel and the frames of the wave sketch, interleaved.                   *)
(***************************************************************************)
\* The container of the session's sketch.
SessionContainer ==
    [clientWidth |-> 50, clientHeight |-> 50, offsetWidth |-> 300,
     offsetHeight |-> 300, rectWidth |-> 0, rectHeight |-> 0]

SessionNext ==
    \/ uploads = <<>> /\ HandleImageUpload
    \/ \E i \in 1..Len(uploads) : ReaderOnload(i)
    \/ \E i \in 1..Len(uploads) : ImgOnload(i)
    \/ \E i \in 1..Len(uploads) : \E outcome \in {"resolved", "rejected"} :
          ExtractionSettled(i, outcome)
    \/ HandleImageRemove
    \/ \E x \in KnobClickXs : HandlePatternTypeClick(x)
    \/ HandlePatternTypeMouseDown(0, 0)
    \/ \E type \in KnobTypes : HandleKnobMouseDown(0, 0, type)
    \/ HandleColorSliderMouseDown(0, 0)
    \/ \E x \in KnobXs, y \in KnobYs, now \in EventTimes : HandleMouseMove(x, y, now)
    \/ HandleMouseUp(0, 0)
    \/ Setup(SessionContainer)
    \/ WaveSketchDraw(FALSE, TRUE)

(***************************************************************************)
(* File selection: handleFileSelect of UploadArea and of ImagePlaceholder, *)
(* the onChange handlers of the file inputs, with onImageUpload bound to   *)
(* App's handleImageUpload.                                                *)
(***************************************************************************)
MaxSelections == 2

\* file.type values, as character sequences.
FileTypes ==
    {<<"i", "m", "a", "g", "e", "/", "p", "n", "g">>,
     <<"i", "m", "a", "g", "e", "/", "j", "p", "e", "g">>,
     <<"t", "e", "x", "t", "/", "i", "m", "a", "g", "e", "/">>,
     <<"i", "m", "a", "g", "e">>,
     <<>>}

\* e.target.files[0]: undefined when no file was chosen.
SelectedFiles == {Null} \cup {<<t>> : t \in FileTypes}

FileSelectComponents == {"UploadArea", "ImagePlaceholder"}

SelectInit ==
    /\ selection = [n |-> 0, component |-> "none", file |-> Null,
                    alert |-> FALSE, onImageUpload |-> FALSE]
    /\ isProcessing = FALSE

\* String.prototype.startsWith.
startsWith(s, prefix) ==
    /\ Len(s) >= Len(prefix)
    /\ SubSeq(s, 1, Len(prefix)) = prefix

\* Mutant: any chosen file passes.
AcceptsFileAnyType(file) == file # Null

\* file && file.type.startsWith('image/')
AcceptsFile(file) ==
    /\ file # Null
    /\ startsWith(file[1], <<"i", "m", "a", "g", "e", "/">>)

\* handleFileSelect(e) of either component, up to the await: an accepted
\* file is handed to onImageUpload (handleImageUpload, which starts the
\* FileReader); ImagePlaceholder sets isProcessing around the call. Any
\* other selection raises the alert.
HandleFileSelect(component, file) ==
    /\ selection.n < MaxSelections
    /\ Len(uploads) < MaxUploads
    /\ ~isProcessing
    /\ selection' = [n |-> selection.n + 1, component |-> component, file |-> file,
                     alert |-> ~AcceptsFile(file),
                     onImageUpload |-> AcceptsFile(file)]
    /\ IF AcceptsFile(file)
         THEN /\ uploads' = Append(uploads, [pc |-> "reading", rb |-> removeBackground,
                                             result |-> "pending"])
              /\ isProcessing' = (component = "ImagePlaceholder")
         ELSE UNCHANGED <<uploads, isProcessing>>
    /\ UNCHANGED <<uploadedImage, imageMetadata, isExtractingMetadata, removeBackground,
                   removedAt>>
    /\ UNCHANGED <<controlVars, renderVars, extractVars, mappingVars, gpsVars, tintVars,
                   mapperVars, phaseVars, serverVars>>

\* ImagePlaceholder's handleFileSelect after `await onImageUpload(file)`:
\* finally setIsProcessing(false).
FileSelectResumed ==
    /\ isProcessing
    /\ isProcessing' = FALSE
    /\ UNCHANGED selection
    /\ UNCHANGED nonSelectVars

SelectNext ==
    \/ \E component \in FileSelectComponents, file \in SelectedFiles :
           HandleFileSelect(component, file)
    \/ FileSelectResumed
    \/ \E i \in 1..Len(uploads) : ReaderOnload(i)
    \/ \E i \in 1..Len(uploads) : ImgOnload(i)
    \/ \E i \in 1..Len(uploads) : \E outcome \in {"resolved", "rejected"} :
          ExtractionSettled(i, outcome)
    \/ HandleImageRemove

(***************************************************************************)
(* Parameter mapper: mapMetadataToP5Params(metadata, seed) as a whole.     *)
(* density is in hundredths, flowIntensity, particleSize, motionBlur,      *)
(* colorShift and glowIntensity in tenths, noiseScale in 1/20000,          *)
(* noiseSpeed in thousandths, turbulence in 1/2000.                        *)
(***************************************************************************)
MaxClock == 3

ultraWide == <<"U", "l", "t", "r", "a", " ", "W", "i", "d", "e">>
telephoto == <<"T", "e", "l", "e", "p", "h", "o", "t", "o">>
frontCamera == <<"F", "r", "o", "n", "t">>

\* The metadata records and the seed arguments the mapper is called with;
\* a seed of Null is the omitted argument.
MapperMetadata ==
    [lens : {Null, <<ultraWide>>},
     lensType : {Null, <<telephoto>>},
     iso : {Null, <<0>>, <<900>>},
     orientation : {<<6>>},
     flash : {Null, <<TRUE>>},
     timeOfDay : {<<"night">>},
     season : {Null, <<"summer">>}]
MapperSeeds == {Null, <<0>>, <<42>>}

NoCall == [called |-> FALSE]

MapperInit ==
    /\ dateNow = 1
    /\ firstCall = NoCall
    /\ secondCall = NoCall

\* mapMetadataToPatternType(metadata).
mapMetadataToPatternType(metadata) ==
    LET lensLower == IF metadata.lensType = Null THEN <<>>
                     ELSE toLowerCase(metadata.lensType[1])
        has(w) == includes(lensLower, w)
    IN  IF lensLower # <<>> /\ has(toLowerCase(ultraWide)) THEN "wave"
        ELSE IF lensLower # <<>> /\ has(toLowerCase(telephoto)) THEN "topographic"
        ELSE IF lensLower # <<>> /\ has(toLowerCase(frontCamera)) THEN "bouncing"
        ELSE IF lensLower # <<>> /\ has(<<"w", "i", "d", "e">>) THEN "contour"
        ELSE IF ~Falsy(metadata.iso)
               THEN IF metadata.iso[1] <= 100 THEN "wave"
                    ELSE IF metadata.iso[1] <= 400 THEN "contour"
                    ELSE "static"
        ELSE IF metadata.flash = <<TRUE>> THEN "bouncing"
        ELSE IF metadata.timeOfDay # Null
               THEN IF metadata.timeOfDay[1] = "night" THEN "static" ELSE "wave"
        ELSE IF metadata.season # Null
               THEN CASE metadata.season[1] = "spring" -> "wave"
                      [] metadata.season[1] = "summer" -> "bouncing"
                      [] metadata.season[1] = "autumn" -> "topographic"
                      [] metadata.season[1] = "winter" -> "static"
                      [] OTHER -> "contour"
        ELSE "contour"

\* const randomSeed = seed || Date.dateNow(): the clock also for a seed of 0.
RandomSeed(seed, clock) == IF seed = Null \/ seed[1] = 0 THEN clock ELSE seed[1]

\* mapMetadataToP5Params(metadata, seed) called when Date.dateNow() is clock.
mapMetadataToP5Params(metadata, seed, clock) ==
    LET lensLower == IF metadata.lens = Null THEN <<>> ELSE toLowerCase(metadata.lens[1])
        has(w) == includes(lensLower, w)
        wide == <<"w", "i", "d", "e">>
        front == <<"f", "r", "o", "n", "t">>
        ultra == <<"u", "l", "t", "r", "a">>
        flash == metadata.flash = <<TRUE>>
        iso == IF Falsy(metadata.iso) THEN 0 ELSE metadata.iso[1]
        isoStep(high, mid) == IF iso > 800 THEN high ELSE IF iso > 400 THEN mid ELSE 0
        summer == metadata.season = <<"summer">>
    IN  [shape |->
             IF lensLower = <<>> THEN "star"
             ELSE IF has(front) \/ has(<<"s", "e", "l", "f", "i", "e">>) THEN "circle"
             ELSE IF has(wide) /\ ~has(ultra) THEN "rectangle"
             ELSE IF has(toLowerCase(telephoto)) \/ has(<<"z", "o", "o", "m">>)
                    THEN "triangle"
             ELSE IF has(toLowerCase(ultraWide))
                     \/ has(<<"u", "l", "t", "r", "a", "-", "w", "i", "d", "e">>)
                    THEN "rhombus"
             ELSE "star",
         density |-> mapIsoToDensity(metadata.iso),
         alignment |->
             IF metadata.orientation = Null \/ metadata.orientation[1] = 0 THEN "both"
             ELSE IF metadata.orientation[1] \in {1, 3} THEN "horizontal"
             ELSE IF metadata.orientation[1] \in {6, 8} THEN "vertical"
             ELSE "both",
         sharpness |-> IF flash THEN "blurred" ELSE "sharp",
         seed |-> RandomSeed(seed, clock),
         flowIntensity |->
             Min(10, 3 + isoStep(4, 2)
                       + (IF has(toLowerCase(ultraWide)) THEN 3
                          ELSE IF has(wide) THEN 2 ELSE 0)
                       + (IF flash THEN 2 ELSE 0)),
         organicCurves |-> has(toLowerCase(ultraWide)) \/ has(wide) \/ has(front),
         depthLayers |-> Min(5, Max(1, 2 + isoStep(2, 1) + (IF flash THEN 1 ELSE 0))),
         colorGradient |-> flash \/ summer \/ metadata.season = <<"autumn">>,
         iridescentEffect |-> (flash /\ iso > 600) \/ summer,
         centralGlow |-> flash \/ has(front) \/ has(wide),
         particleSize |-> Max(5, Min(30, 10 - isoStep(3, 1) + (IF flash THEN 2 ELSE 0))),
         motionBlur |-> Min(10, (IF flash THEN 4 ELSE 0) + isoStep(3, 1)),
         noiseScale |-> 200 + (IF iso # 0 THEN iso ELSE 200),
         noiseSpeed |-> 1000 + (IF iso # 0 THEN iso ELSE 1000),
         particleCount |-> IF iso # 0 THEN 50 + iso \div 20 ELSE 100,
         streamCount |-> 3 + (IF flash THEN 2 ELSE 0),
         turbulence |-> 1000 + (IF iso # 0 THEN iso ELSE 1000),
         colorShift |-> IF flash THEN 20 ELSE 5,
         glowIntensity |-> IF flash THEN 8 ELSE 3,
         patternType |-> mapMetadataToPatternType(metadata),
         iso |-> metadata.iso,
         season |-> metadata.season,
         tintColor |-> Null]

\* A call of mapMetadataToP5Params; the argument as it is after the call is
\* kept next to the one passed.
CallMapper(metadata, seed) ==
    /\ firstCall' = [called |-> TRUE, metadata |-> metadata, seed |-> seed,
                     metadataAfter |-> metadata,
                     result |-> mapMetadataToP5Params(metadata, seed, dateNow)]
    /\ secondCall' = NoCall
    /\ UNCHANGED dateNow
    /\ UNCHANGED nonMapperVars

\* The same call once more.
RepeatCall ==
    /\ firstCall.called
    /\ ~secondCall.called
    /\ secondCall' = [called |-> TRUE, metadata |-> firstCall.metadata,
                      seed |-> firstCall.seed, metadataAfter |-> firstCall.metadata,
                      result |-> mapMetadataToP5Params(firstCall.metadata,
                                                       firstCall.seed, dateNow)]
    /\ UNCHANGED <<dateNow, firstCall>>
    /\ UNCHANGED nonMapperVars

\* Time passes.
ClockTick ==
    /\ dateNow < MaxClock
    /\ dateNow' = dateNow + 1
    /\ UNCHANGED <<firstCall, secondCall>>
    /\ UNCHANGED nonMapperVars

MapperNext ==
    \/ \E metadata \in MapperMetadata, seed \in MapperSeeds : CallMapper(metadata, seed)
    \/ RepeatCall
    \/ ClockTick

(***************************************************************************)
(* Animation phase: the `time` of a sketch and the pattern type its frames *)
(* draw. time is in hundredths; continuedFrom is the time the routine of   *)
(* the pattern type now drawn took over from the routine of another one.   *)
(***************************************************************************)
NewSketch == [time |-> 0, patternType |-> "none", continuedFrom |-> 0]

PhaseInit ==
    /\ p5Sketch = NewSketch
    /\ consoleSketch = NewSketch

\* time += step, then the routine of pattern type `type` is called with
\* time: a frame of a sketch s.
FrameOf(s, type, step) ==
    [time |-> s.time + step,
     patternType |-> type,
     continuedFrom |-> IF s.patternType \notin {"none", type}
                         THEN s.time ELSE s.continuedFrom]

\* p.draw of createP5Sketch with params.patternType = type: the one `time`
\* of the closure (line 945) advances by noiseSpeed * 0.01 and is passed to
\* the routine the type selects.
P5SketchDraw(type, noiseSpeed) ==
    /\ p5Sketch.time + noiseSpeed <= MaxAnimTime
    /\ p5Sketch' = FrameOf(p5Sketch, type, noiseSpeed)
    /\ UNCHANGED consoleSketch
    /\ UNCHANGED nonPhaseVars

\* The effect of ConsoleFrame on a change of patternType (or of another
\* dependency): generatePattern creates a new sketch, whose time is 0.
GeneratePattern(type) ==
    /\ consoleSketch' = [NewSketch EXCEPT !.patternType = type]
    /\ UNCHANGED p5Sketch
    /\ UNCHANGED nonPhaseVars

\* p.draw of the sketch generatePattern created: time += animationSpeed
\* (0.01).
ConsoleSketchDraw ==
    /\ consoleSketch.patternType # "none"
    /\ consoleSketch.time + 1 <= MaxAnimTime
    /\ consoleSketch' = FrameOf(consoleSketch, consoleSketch.patternType, 1)
    /\ UNCHANGED p5Sketch
    /\ UNCHANGED nonPhaseVars

PhaseNext ==
    \/ \E type \in {"wave", "bump", "contour"}, noiseSpeed \in NoiseSpeeds :
           P5SketchDraw(type, noiseSpeed)
    \/ \E type \in {"wave", "bump", "contour"} : GeneratePattern(type)
    \/ ConsoleSketchDraw

(***************************************************************************)
(* Specifications                                                          *)
(***************************************************************************)
Init ==
    /\ AppInit
    /\ ControlsInit
    /\ RenderInit
    /\ ExtractInit
    /\ MappingInit
    /\ GpsInit
    /\ TintInit
    /\ SelectInit
    /\ MapperInit
    /\ PhaseInit
    /\ ServerInit

SpecApp == Init /\ [][AppNext]_vars

SpecPatternSelector == Init /\ [][PatternSelectorNext]_vars

SpecControls == Init /\ [][ControlsNext]_vars

SpecSession == Init /\ [][SessionNext]_vars

SpecKnobs == Init /\ [][KnobsNext]_vars

SpecZoom == Init /\ [][ZoomNext]_vars

SpecColorSlider == Init /\ [][ColorSliderNext]_vars

SpecRender == Init /\ [][RenderNext]_vars

SpecExtract == Init /\ [][ExtractNext]_vars

SpecMapping == Init /\ [][MappingNext]_vars

SpecGps == Init /\ [][GpsNext]_vars

SpecTint == Init /\ [][TintNext]_vars

SpecSelect == Init /\ [][SelectNext]_vars

SpecMapper == Init /\ [][MapperNext]_vars

SpecPhase == Init /\ [][PhaseNext]_vars

SpecServer == Init /\ [][ServerNext]_vars

\* The metadata service with the exec callback of every started exiftool
\* command eventually run (child_process.exec calls it when the process
\* exits or cannot be started).
ExecCompletes ==
    \A r \in 1..MaxRequests :
        WF_vars(\E outcome \in {"execError", "parseError", "ok"} : ExecCallback(r, outcome))

SpecServerLive == Init /\ [][ServerNext]_vars /\ ExecCompletes


(***************************************************************************)
(* Claims about the App upload pipeline (SpecApp)                          *)
(***************************************************************************)
\* Every extraction that was started has settled, and uploads overlapped.
AllExtractionsFinished ==
    /\ Len(uploads) >= 2
    /\ \A i \in 1..Len(uploads) : uploads[i].pc \in {"removingBackground", "done"}

\* C1: a late-arriving result of a superseded upload is discarded: once every
\* extraction has finished, imageMetadata is never the record of an upload
\* other than the most recently started one (it is that record, or null after
\* a removal or a rejected extraction), in every completion order.
C1_LateResultDiscarded ==
    AllExtractionsFinished => imageMetadata \in {Null, <<Len(uploads)>>}

(***************************************************************************)
(* Claims about the metadata service (SpecServer)                          *)
(***************************************************************************)
Responded(r) == requests[r].responses > 0

\* C6: the uploaded file is deleted after processing on every outcome: the
\* deletion is started exactly once for every stored file whose request has
\* been answered, never more than once, and never without a stored file.
C6_UploadedFileDeletedOnce ==
    \A r \in 1..MaxRequests :
        /\ requests[r].unlinks <= 1
        /\ (Responded(r) /\ requests[r].stored) => requests[r].unlinks = 1
        /\ ~requests[r].stored => requests[r].unlinks = 0

\* Witness of C6: three answered requests, one per outcome of the exiftool
\* run, each with its deletion started.
C6_Witness ==
    /\ \A o \in {"execError", "parseError", "ok"} :
          \E r \in 1..MaxRequests :
              Responded(r) /\ requests[r].outcome = o /\ requests[r].unlinks = 1

\* C7 as stated: every failing request (no image, exiftool error, unparsable
\* output) is answered 500 with {error}; 200 with the metadata exactly on
\* success.
C7_EveryFailureIs500 ==
    \A r \in 1..MaxRequests :
        Responded(r) =>
            IF requests[r].outcome = "ok"
              THEN requests[r].response.status = 200
                   /\ requests[r].response.kind = "metadata"
              ELSE requests[r].response.status = 500
                   /\ requests[r].response.kind = "error"

\* C7 amended: a request without an image is answered 400 with {error}; an
\* exiftool error or unparsable output is answered 500 with {error}; 200 with
\* the metadata JSON is returned exactly when extraction succeeds.
C7_FailureStatusByCause ==
    \A r \in 1..MaxRequests :
        Responded(r) =>
            /\ (requests[r].response.status = 200) <=> (requests[r].outcome = "ok")
            /\ requests[r].outcome = "ok" => requests[r].response.kind = "metadata"
            /\ requests[r].outcome \in {"execError", "parseError"} =>
                  /\ requests[r].response.status = 500
                  /\ requests[r].response.kind = "error"
            /\ ~requests[r].stored =>
                  /\ requests[r].response.status = 400
                  /\ requests[r].response.kind = "error"

\* Witness of C7: every cause of failure and the success have been answered.
C7_Witness ==
    /\ \E r \in 1..MaxRequests : Responded(r) /\ ~requests[r].stored
    /\ \E r \in 1..MaxRequests : Responded(r) /\ requests[r].outcome \in {"execError", "parseError"}
    /\ \E r \in 1..MaxRequests : Responded(r) /\ requests[r].outcome = "ok"


(***************************************************************************)
(* Claims about the pattern-type selector (SpecPatternSelector)            *)
(***************************************************************************)
\* C4 as stated: one continuous drag gesture on the pattern-type knob
\* (pointer-down to pointer-up) changes the pattern type by at most one step,
\* however many mouse-moves it contains.
C4_AtMostOneStepPerGesture ==
    dragType = "patternType" =>
        Abs(PatternIndex(patternType) - PatternIndex(gestureStartType)) <= 1

\* C4 amended: while the pattern-type knob is dragged, a mouse-move whose
\* horizontal distance from the current drag origin is at most the 50 px
\* threshold changes nothing; a mouse-move beyond it changes the pattern type
\* by at most one position, whatever its distance, and whenever the type
\* changes the drag origin is reset to the pointer position, so that the next
\* step needs another 50 px (a gesture can therefore advance more than once).
C4_OneStepPerThresholdCrossing ==
    [][(isDragging /\ dragType = "patternType") =>
          /\ Abs(lastEvent'.x - dragStart.x) <= dragThreshold =>
                /\ patternType' = patternType
                /\ dragStart' = dragStart
          /\ Abs(PatternIndex(patternType') - PatternIndex(patternType)) <= 1
          /\ patternType' # patternType =>
                /\ Abs(lastEvent'.x - dragStart.x) > dragThreshold
                /\ dragStart' = [x |-> lastEvent'.x, y |-> lastEvent'.y]]_vars

\* Witness of C4: a drag in progress that went from wave to bump in one
\* mouse-move 153 px away from the pointer-down position.
C4_Witness ==
    /\ isDragging /\ dragType = "patternType"
    /\ gestureStartType = "wave"
    /\ patternType = "bump"
    /\ lastEvent.type = "move" /\ lastEvent.x = 153
    /\ dragStart.x = 153

\* The third of the track a click at x lies in (0, 1 or 2), the track being
\* divided into equal thirds.
ThirdOf(x, width) ==
    IF 3 * x < width THEN 0 ELSE IF 3 * x < 2 * width THEN 1 ELSE 2

\* C10 as stated: a click selects the pattern type of the third of the track
\* it falls in (first third wave, middle third bump, last third contour);
\* stated for the clicks the handler accepts (no drag in progress).
C10_ClickSelectsEqualThird ==
    (lastEvent.type = "click" /\ ~isDragging) =>
        patternType = patternTypes[ThirdOf(lastEvent.x, trackClickWidth) + 1]

\* C10 amended: a click (with no drag in progress) at relative position
\* p = x / width selects wave when p < 0.33, bump when 0.33 <= p < 0.66 and
\* contour when p >= 0.66; in particular 0.1 -> wave, 0.5 -> bump,
\* 0.9 -> contour.
C10_ClickSelectsByThresholds ==
    (lastEvent.type = "click" /\ ~isDragging) =>
        LET x == lastEvent.x
            w == trackClickWidth
        IN  /\ 100 * x < 33 * w => patternType = "wave"
            /\ (100 * x >= 33 * w /\ 100 * x < 66 * w) => patternType = "bump"
            /\ 100 * x >= 66 * w => patternType = "contour"
            /\ 10 * x = 1 * w => patternType = "wave"
            /\ 10 * x = 5 * w => patternType = "bump"
            /\ 10 * x = 9 * w => patternType = "contour"

\* Witness of C10: a click at relative position 0.9, outside a drag, has
\* selected contour.
C10_Witness ==
    /\ lastEvent.type = "click"
    /\ ~isDragging
    /\ 10 * lastEvent.x = 9 * trackClickWidth
    /\ patternType = "contour"


(***************************************************************************)
(* C5, C9: the renderer                                                    *)
(***************************************************************************)
\* C5: whenever an exception was raised while the last frame was produced
\* (reading the parameters or running the draw routine), the fallback shape
\* was drawn for that frame and the loop goes on drawing frames.
C5_FrameExceptionDrawsFallback ==
    lastFrame.exception # "none" => lastFrame.drawn = "fallback" /\ looping

\* C9: once created, the canvas is between 100 and 2000 pixels in each
\* dimension; it is 500 by 400 when no measuring strategy gives the
\* container a positive width and height, and the measured size clamped
\* to [100, 2000] otherwise.
C9_CanvasSizeBounded ==
    canvas.created =>
        /\ canvas.width \in 100..2000
        /\ canvas.height \in 100..2000
        /\ MeasuredSize(container) = <<0, 0>>
              => canvas.width = 500 /\ canvas.height = 400
        /\ MeasuredSize(container) # <<0, 0>>
              => /\ canvas.width = Max(100, Min(2000, MeasuredSize(container)[1]))
                 /\ canvas.height = Max(100, Min(2000, MeasuredSize(container)[2]))

\* The container measured 50 by 2500 through its client sizes, and the
\* canvas became 100 by 2000.
C9_Witness ==
    /\ canvas.created
    /\ container.clientWidth = 50
    /\ container.clientHeight = 2500
    /\ canvas.width = 100
    /\ canvas.height = 2000


(***************************************************************************)
(* C8: sensitivity to density                                              *)
(***************************************************************************)
\* C8: the density computed for a sensitivity is at least the density of
\* every smaller sensitivity, it is 0.05 for every sensitivity <= 24 and
\* 1.0 for every sensitivity >= 2000.
C8_DensityMonotonicAndClamped ==
    metadataIso # Null =>
        /\ metadataIso[1] <= 24 => density = 5
        /\ metadataIso[1] >= 2000 => density = 100
        /\ \A a \in IsoValues :
              a <= metadataIso[1] => mapIsoToDensity(<<a>>) <= density

\* C8, with the sensitivity 0 set apart: the density of a sensitivity other
\* than 0 is at least the density of every smaller sensitivity other than
\* 0, it is 0.05 when the sensitivity is <= 24 and 1.0 when it is >= 2000;
\* the density of the sensitivity 0 is that of an absent one, 0.3.
C8_NonzeroDensityMonotonicAndClamped ==
    metadataIso # Null =>
        /\ metadataIso[1] = 0 => density = 30
        /\ metadataIso[1] # 0 =>
              /\ metadataIso[1] <= 24 => density = 5
              /\ metadataIso[1] >= 2000 => density = 100
              /\ \A a \in IsoValues \ {0} :
                    a <= metadataIso[1] => mapIsoToDensity(<<a>>) <= density

\* Witness of C8: a sensitivity above the range, 2010, has been mapped to
\* the maximum density.
C8_Witness ==
    /\ metadataIso = <<2010>>
    /\ density = 100


(***************************************************************************)
(* C2, C3: extractRealMetadata                                             *)
(***************************************************************************)
\* The value of the first record of the sequence that has the field.
RECURSIVE FirstDefined(_, _)
FirstDefined(records, f) ==
    IF records = <<>> THEN Null
    ELSE IF Head(records)[f] # Null THEN Head(records)[f]
    ELSE FirstDefined(Tail(records), f)

\* The image dimensions, as the record of the first stage.
DimensionsOf(imageElement) ==
    [NoMetadata EXCEPT !.width = <<imageElement.width>>,
                       !.height = <<imageElement.height>>]

\* C2: in the client-side extraction every field of the record holds the
\* value written by the earliest stage that set it (dimensions, pixel
\* analysis, embedded tags, file properties, in that order): after the
\* pixel analysis, and in the record returned.
C2_FirstWriterWins ==
    \A f \in Fields :
        /\ extraction.pc = "exif" =>
              extraction.metadata[f] =
                 FirstDefined(<<DimensionsOf(extraction.imageElement),
                                extraction.imageAnalysis>>, f)
        /\ extraction.pc = "resolved" /\ extraction.source = "client" =>
              extraction.metadata[f] =
                 FirstDefined(<<DimensionsOf(extraction.imageElement),
                                extraction.imageAnalysis,
                                extraction.exifData,
                                extraction.fileBasedData>>, f)

\* Witness of C2: the pixel analysis estimated iso 400, the embedded tags
\* carry iso 50 and orientation 8, the file heuristics say orientation 1,
\* and the record returned has iso 400 and orientation 8.
C2_Witness ==
    /\ extraction.pc = "resolved"
    /\ extraction.source = "client"
    /\ extraction.imageAnalysis.iso = <<400>>
    /\ extraction.exifOutcome = "record"
    /\ extraction.exifData.iso = <<50>>
    /\ extraction.exifData.orientation = <<8>>
    /\ extraction.fileBasedData.orientation = <<1>>
    /\ extraction.metadata.iso = <<400>>
    /\ extraction.metadata.orientation = <<8>>

\* C3: the promise of extractRealMetadata never rejects.
C3_NeverRejects == extraction.pc # "rejected"

(***************************************************************************)
(* C11: GPS conversion                                                     *)
(***************************************************************************)
\* deg + min/60 + sec/3600 of a tag, negated for S and W.
SignedDegrees(tag) ==
    IF tag.ref \in {"S", "W"} THEN 0 - DecimalDegrees(tag.dms)
    ELSE DecimalDegrees(tag.dms)

\* C11: every coordinate returned by convertDMSToDD and by parseGPS is
\* negative if and only if its hemisphere letter is S or W.
C11_NegativeIffSouthOrWest ==
    gps # Null =>
        \A i \in 1..2 : gps[i] < 0 <=> gpsTags[i].ref \in {"S", "W"}

\* C11, with the zero coordinate set apart: every coordinate returned by
\* convertDMSToDD and by parseGPS is deg + min/60 + sec/3600, negated for S
\* and W, and it is negative if and only if the letter is S or W and
\* degrees, minutes and seconds are not all zero.
C11_SignedDegreesReturned ==
    gps # Null =>
        \A i \in 1..2 :
            /\ gps[i] = SignedDegrees(gpsTags[i])
            /\ gps[i] < 0 <=>
                  (gpsTags[i].ref \in {"S", "W"} /\ gpsTags[i].dms # <<0, 0, 0>>)

\* Witness of C11: 40 deg 30' 39" S, 40 deg 0' 39" W has been parsed by the
\* service into -145839 and -144039 arc seconds.
C11_Witness ==
    /\ gpsParser = "service"
    /\ gpsTags[1] = [dms |-> <<40, 30, 39>>, ref |-> "S"]
    /\ gpsTags[2] = [dms |-> <<40, 0, 39>>, ref |-> "W"]
    /\ gps = <<0 - 145839, 0 - 144039>>

(***************************************************************************)
(* C12, C13, C14, C18: the record returned by extractRealMetadata          *)
(***************************************************************************)
\* The client-side extraction has returned, and the file carried no
\* embedded tags.
ReturnedWithoutTags ==
    /\ extraction.pc = "resolved"
    /\ extraction.source = "client"
    /\ extraction.exifOutcome # "record" \/ extraction.exifData = NoMetadata

\* A name IMG_YYYYMMDD_HHMMSS.jpg.
IsCameraFileName(name) ==
    /\ Len(name) = 23
    /\ SubSeq(name, 1, 4) = <<"I", "M", "G", "_">>
    /\ \A k \in 5..12 : IsDigit(name[k])
    /\ name[13] = "_"
    /\ \A k \in 14..19 : IsDigit(name[k])
    /\ SubSeq(name, 20, 23) = <<".", "j", "p", "g">>

\* The date YYYY-MM-DD, the time HH:MM:SS and the hour HH of such a name.
DateOfName(name) ==
    SubSeq(name, 5, 8) \o <<"-">> \o SubSeq(name, 9, 10) \o <<"-">> \o SubSeq(name, 11, 12)
TimeOfName(name) ==
    SubSeq(name, 14, 15) \o <<":">> \o SubSeq(name, 16, 17) \o <<":">> \o SubSeq(name, 18, 19)
HourOfName(name) == 10 * DigitValue(name[14]) + DigitValue(name[15])

IMG_20230615_143000 ==
    <<"I", "M", "G", "_", "2", "0", "2", "3", "0", "6", "1", "5", "_",
      "1", "4", "3", "0", "0", "0", ".", "j", "p", "g">>

\* C12: with the service unavailable and no embedded tags, a file named
\* IMG_YYYYMMDD_HHMMSS.jpg gets date YYYY-MM-DD and time HH:MM:SS of its
\* name in the record returned; IMG_20230615_143000.jpg gets 2023-06-15
\* and 14:30:00.
C12_DateAndTimeFromFileName ==
    ReturnedWithoutTags /\ IsCameraFileName(extraction.file.name) =>
        /\ extraction.metadata.date = <<DateOfName(extraction.file.name)>>
        /\ extraction.metadata.time = <<TimeOfName(extraction.file.name)>>
        /\ extraction.file.name = IMG_20230615_143000 =>
              /\ extraction.metadata.date =
                    << <<"2", "0", "2", "3", "-", "0", "6", "-", "1", "5">> >>
              /\ extraction.metadata.time =
                    << <<"1", "4", ":", "3", "0", ":", "0", "0">> >>

\* Witness of C12: IMG_20230615_143000.jpg, whose modification time is
\* 2024-04-10 23:05:09, was extracted without tags and has the date
\* 2023-06-15.
C12_Witness ==
    /\ ReturnedWithoutTags
    /\ extraction.file.name = IMG_20230615_143000
    /\ extraction.file.lastModified.hour = 23
    /\ extraction.metadata.date =
          << <<"2", "0", "2", "3", "-", "0", "6", "-", "1", "5">> >>

\* C13: in the same scenario the timeOfDay of the record returned is the
\* one of the file-name hour, day if and only if 6 <= HH < 18.
C13_TimeOfDayFromFileName ==
    ReturnedWithoutTags /\ IsCameraFileName(extraction.file.name) =>
        extraction.metadata.timeOfDay =
            <<IF 6 <= HourOfName(extraction.file.name)
                 /\ HourOfName(extraction.file.name) < 18
              THEN "day" ELSE "night">>

\* C13, with the pixel analysis taken into account: in the same scenario
\* the timeOfDay of the record returned is the one the pixel analysis set
\* from the brightness when it set one, and otherwise the one of the
\* file-name hour, day if and only if 6 <= HH < 18.
C13_TimeOfDayFromAnalysisFirst ==
    ReturnedWithoutTags /\ IsCameraFileName(extraction.file.name) =>
        extraction.metadata.timeOfDay =
            IF extraction.imageAnalysis.timeOfDay # Null
              THEN extraction.imageAnalysis.timeOfDay
              ELSE <<IF 6 <= HourOfName(extraction.file.name)
                        /\ HourOfName(extraction.file.name) < 18
                     THEN "day" ELSE "night">>

\* Witness of C13: IMG_20230615_143000.jpg with a dark image: the analysis
\* said night, and night is in the record returned.
C13_Witness ==
    /\ ReturnedWithoutTags
    /\ extraction.file.name = IMG_20230615_143000
    /\ extraction.imageAnalysis.timeOfDay = <<"night">>
    /\ extraction.metadata.timeOfDay = <<"night">>

\* The scenario of C14: no tags, a 4000 x 3000 image of 7.2 MB whose name
\* starts with IMG_.
LargeCameraFileReturned ==
    /\ ReturnedWithoutTags
    /\ extraction.imageElement = [width |-> 4000, height |-> 3000]
    /\ extraction.file.size = 7200000
    /\ SubSeq(extraction.file.name, 1, 4) = <<"I", "M", "G", "_">>

\* C14: in that scenario the phoneType of the record returned is the guess
\* of the file-size bucket of detectPhoneTypeFromFile: iPhone 15 for a size
\* between 6 and 8 MB.
C14_PhoneTypeFromFileSize ==
    LargeCameraFileReturned => extraction.metadata.phoneType = <<"iPhone 15">>

\* C14, with the pixel analysis taken into account: in that scenario the
\* phoneType of the record returned is the guess of the pixel analysis,
\* Smartphone for a landscape image, when the analysis made one, and
\* otherwise the guess of the file-size bucket, iPhone 15.
C14_PhoneTypeFromAnalysisFirst ==
    LargeCameraFileReturned =>
        extraction.metadata.phoneType =
            IF extraction.imageAnalysis.phoneType # Null
              THEN <<"Smartphone">>
              ELSE <<"iPhone 15">>

\* Witness of C14: the scenario with an analysis that guessed Smartphone
\* while the file-size bucket says iPhone 15: the record returned has
\* Smartphone.
C14_Witness ==
    /\ LargeCameraFileReturned
    /\ extraction.imageAnalysis.phoneType = <<"Smartphone">>
    /\ extraction.fileBasedData.phoneType = <<"iPhone 15">>
    /\ extraction.metadata.phoneType = <<"Smartphone">>

\* The fields that C18 names.
FabricatedFields ==
    {"phoneType", "lensType", "iso", "aperture", "flash", "orientation",
     "date", "time", "timeOfDay", "season"}

NoTintMarkers == {Null, <<"#FFFFFF">>}

\* C15: when the tint is a no-tint marker (null or '#FFFFFF'), the primitive
\* is filled with its untinted base colour, in applyTint and in the canvas
\* pattern routines alike.
C15_NoOpTintLeavesColour ==
    (tintRoutine # "none" /\ tintColor \in NoTintMarkers)
        => fillColor = baseColor

(***************************************************************************)
(* Claims about the whole control panel (SpecControls)                     *)
(***************************************************************************)
\* The drag state as it is before any gesture.
DragStateIdle ==
    /\ ~isDragging
    /\ dragType = "null"
    /\ dragStart = [x |-> 0, y |-> 0]
    /\ dragStartValue = 0

AwaitingResult(i) == uploads[i].pc \in {"reading", "decoding", "extracting"}

\* C19: from the moment a new upload starts until its own result arrives,
\* imageMetadata does not hold the record of a previous image.
C19_NewUploadDiscardsMetadata ==
    \A i \in 1..Len(uploads) :
        AwaitingResult(i) => (imageMetadata = Null \/ imageMetadata[1] >= i)

(***************************************************************************)
(* Claims about the file selection (SpecSelect)                            *)
(***************************************************************************)
\* The selected file exists and the first six characters of its type are
\* 'image/'.
IsImageSelection(sel) ==
    /\ sel.file # Null
    /\ Len(sel.file[1]) >= 6
    /\ sel.file[1][1] = "i" /\ sel.file[1][2] = "m" /\ sel.file[1][3] = "a"
    /\ sel.file[1][4] = "g" /\ sel.file[1][5] = "e" /\ sel.file[1][6] = "/"

\* C20: handleFileSelect calls onImageUpload only for a selected file whose
\* type starts with 'image/'; for any other selection it raises the alert
\* and starts no upload and no metadata extraction and changes no state.
C20_InvalidSelectionRejected ==
    [][selection'.n # selection.n
         => IF IsImageSelection(selection')
              THEN /\ selection'.onImageUpload /\ ~selection'.alert
                   /\ Len(uploads') = Len(uploads) + 1
              ELSE /\ selection'.alert /\ ~selection'.onImageUpload
                   /\ appVars' = appVars
                   /\ isProcessing' = isProcessing
                   /\ extractVars' = extractVars
                   /\ controlVars' = controlVars
                   /\ serverVars' = serverVars]_vars

\* A file of type 'text/image/' was selected after an upload had been
\* started: the alert was raised and the one upload is all there is.
C20_Witness ==
    /\ selection.n = 2
    /\ selection.file = <<(<<"t", "e", "x", "t", "/", "i", "m", "a", "g", "e", "/">>)>>
    /\ selection.alert
    /\ Len(uploads) = 1
    /\ isExtractingMetadata

(***************************************************************************)
(* Claims about the parameter mapper (SpecMapper)                          *)
(***************************************************************************)
\* C21: two calls of mapMetadataToP5Params with the same metadata and the
\* same explicit seed return identical records whose seed field is the
\* seed passed in, and the metadata argument is as it was before the call.
C21_MapperIsPure ==
    (secondCall.called /\ firstCall.seed # Null)
        => /\ secondCall.result = firstCall.result
           /\ firstCall.result.seed = firstCall.seed[1]
           /\ secondCall.metadataAfter = firstCall.metadata

(***************************************************************************)
(* Claims about the knob drags (SpecKnobs)                                 *)
(***************************************************************************)
\* C22: every handled mouse move of a knob drag emits a clamped, rounded
\* value: a rotation drag an integer in [-180, 180], and nothing while the
\* horizontal distance is below the dead zone; the 'frequency' knob a scale
\* in [0.1, 3.0] in steps of 0.1, the 'scale' knob one in steps of 0.01; a
\* zoom drag a zoom in [1.0, 5.0] in steps of 0.01.
C22_KnobsEmitClampedRounded ==
    [][lastUpdateTime' # lastUpdateTime
         => /\ dragType = "rotation"
                 => IF Abs(lastEvent'.x - dragStart.x) < deadZone
                      THEN rotation' = rotation
                      ELSE rotation' \in -180..180
            /\ dragType = "frequency"
                 => scale' \in 100..3000 /\ scale' % 100 = 0
            /\ dragType = "scale"
                 => scale' \in 100..3000 /\ scale' % 10 = 0
            /\ dragType = "zoom"
                 => zoom' \in 1000..5000 /\ zoom' % 10 = 0]_vars

\* Each knob was dragged to an end of its range: the rotation to 180, the
\* scale down to 0.1 and the zoom up to 5.0.
C22_Witness ==
    /\ rotation = 180
    /\ scale = 100
    /\ zoom = 5000
    /\ lastEvent.type = "move"

(***************************************************************************)
(* Claims about the animation phase (SpecPhase)                            *)
(***************************************************************************)
\* C23: the draw routine of a newly selected pattern type does not continue
\* from the time accumulated while another pattern type was drawn, in
\* createP5Sketch and in ConsoleFrame alike.
C23_SwitchResetsPhase ==
    /\ p5Sketch.continuedFrom = 0
    /\ consoleSketch.continuedFrom = 0

(***************************************************************************)
(* Claims about the zoom (SpecZoom)                                        *)
(***************************************************************************)
\* C24: for the initial zoom and every zoom the zoom control can set, the
\* scale factor of the draw routines is within [0.5, 2.0].
C24_ZoomScaleWithinRange == zoomScale(zoom) \in 500..2000

\* The extraction of upload i is in flight: extractRealMetadata was called
\* and its promise has not settled.
ExtractionInFlight(i) == uploads[i].pc = "extracting"

\* C25: isExtractingMetadata is true exactly in the states in which at least
\* one metadata extraction is in flight, also when uploads overlap.
C25_ExtractingFlagTracksExtractions ==
    isExtractingMetadata <=> \E i \in 1..Len(uploads) : ExtractionInFlight(i)

\* C26: after handleImageRemove, as long as no new upload has been started,
\* uploadedImage and imageMetadata are null, whatever extraction was in
\* flight when the image was removed.
C26_RemovedStaysRemoved ==
    (removedAt # Null /\ Len(uploads) = removedAt[1])
        => uploadedImage = Null /\ imageMetadata = Null

\* No upload is in flight: every handleImageUpload call has run to its end.
NoUploadInFlight == \A i \in 1..Len(uploads) : uploads[i].pc = "done"

\* The image and the metadata shown stem from the same upload: both unset,
\* or both of one upload, the metadata being null when that upload's
\* extraction was rejected.
SameUploadShown ==
    \/ uploadedImage = Null /\ imageMetadata = Null
    \/ /\ uploadedImage # Null
       /\ IF uploads[uploadedImage[1]].result = "rejected"
            THEN imageMetadata = Null
            ELSE imageMetadata = <<uploadedImage[1]>>

\* C27: whenever no upload is in flight, imageMetadata and uploadedImage
\* stem from the same upload or are both unset.
C27_MetadataMatchesImage == NoUploadInFlight => SameUploadShown

(***************************************************************************)
(* Claims about the whole control panel: pattern type and tint             *)
(* (SpecControls)                                                          *)
(***************************************************************************)
\* C28: starting from 'wave', after any sequence of clicks, pointer-downs,
\* mouse-moves and pointer-ups on the controls the pattern type is one of
\* wave, bump, contour; a pointer-down and a pointer-up leave it alone, and a
\* mouse-move changes it only during a drag of the pattern-type knob, only
\* beyond the 50 px threshold, and then by exactly one position in the
\* direction of the drag: never from contour round to wave or from wave round
\* to contour.
C28_PatternTypeStepsWithoutWrapping ==
    [][/\ patternType \in {"wave", "bump", "contour"}
       /\ patternType' \in {"wave", "bump", "contour"}
       /\ lastEvent'.type \in {"down", "up"} => patternType' = patternType
       /\ lastEvent'.type = "move" =>
            LET deltaX == lastEvent'.x - dragStart.x
                from == PatternIndex(patternType)
                to == PatternIndex(patternType')
            IN  /\ Abs(to - from) <= 1
                /\ to # from =>
                     /\ isDragging /\ dragType = "patternType"
                     /\ Abs(deltaX) > dragThreshold
                     /\ deltaX > 0 => to = from + 1
                     /\ deltaX < 0 => to = from - 1]_vars

\* Witness of C28: the pattern-type knob dragged to the right beyond the
\* threshold while the type is contour, the last position: the type stayed
\* contour.
C28_Witness ==
    /\ isDragging /\ dragType = "patternType"
    /\ gestureStartType = "contour"
    /\ patternType = "contour"
    /\ lastEvent.type = "move"
    /\ lastEvent.x - dragStart.x > dragThreshold
    /\ lastUpdateTime >= throttleMs

C30_ExactlyOneResponse ==
    /\ [](\A r \in 1..MaxRequests :
             /\ requests[r].responses <= 1
             /\ requests[r].pc \in {"new", "executing"} => requests[r].responses = 0
             /\ requests[r].pc \in {"unlinking", "responded"} => requests[r].responses = 1)
    /\ \A r \in 1..MaxRequests :
          (requests[r].pc = "executing") ~> (requests[r].responses = 1)

\* Witness of C30: a request without a file answered once, a request with a
\* file answered once after its exiftool command failed, and a third whose
\* command is still running, unanswered.
C30_Witness ==
    /\ \E r \in 1..MaxRequests :
          ~requests[r].stored /\ requests[r].pc = "responded" /\ requests[r].responses = 1
    /\ \E r \in 1..MaxRequests :
          /\ requests[r].stored /\ requests[r].outcome = "execError"
          /\ requests[r].responses = 1
    /\ \E r \in 1..MaxRequests :
          requests[r].stored /\ requests[r].pc = "executing" /\ requests[r].responses = 0

=============================================================================
